---- MODULE Spec2Model ----
(***************************************************************************)
(* Draft lifecycle manager and aggregate stores of the legal-document      *)
(* backend (backend/api/services/drafting_service.py, workflow_service.py  *)
(* and the endpoints that call them).                                      *)
(*                                                                         *)
(* The stores are Python dicts keyed by id: a TLA+ function whose DOMAIN   *)
(* is the set of ids present.  Python None is the string "None" for        *)
(* optional scalar fields and the empty sequence for optional objects      *)
(* (Some(x) is <<x>>).  uuid4() is a fresh number taken from a counter.    *)
(* workflowCreator is a history variable: the user each workflow was       *)
(* created for, which the serialized workflow does not carry.              *)
(*                                                                         *)
(* Workflow execution runs as asyncio tasks on one event loop.  A task     *)
(* created by asyncio.create_task waits in the loop's ready queue (ready); *)
(* a task suspended in asyncio.sleep(1) waits in the timer queue           *)
(* (sleeping); both are served first in, first out.  A task holds the      *)
(* Workflow object it was created with; every service call works on an     *)
(* object freshly loaded from WORKFLOW_STORAGE.  The step handlers contain *)
(* no suspension point, so a task runs from one asyncio.sleep to the next  *)
(* without interruption, and so does every service call.  executed,        *)
(* approvedSteps, resumed and created are history variables.               *)
(***************************************************************************)
EXTENDS Integers, Sequences, FiniteSets, TLC

VARIABLES DRAFT_STORAGE, WORKFLOW_STORAGE, workflowCreator, nextDraft, nextVersion,
          nextWorkflow, lastCall, ready, sleeping, executed, approvedSteps, resumed, created,
          conversation, schemas, schema, form

vars == <<DRAFT_STORAGE, WORKFLOW_STORAGE, workflowCreator, nextDraft, nextVersion,
          nextWorkflow, lastCall, ready, sleeping, executed, approvedSteps, resumed, created,
          conversation, schemas, schema, form>>

\* the conversation text at hand, the schema loader's self.schemas, and the schema and the
\* form last returned by the dynamic schema loader and the dynamic form generator
formVars == <<conversation, schemas, schema, form>>

\* the drafts, the workflows and the event loop
serviceVars == <<DRAFT_STORAGE, WORKFLOW_STORAGE, workflowCreator, nextDraft, nextVersion,
                 nextWorkflow, ready, sleeping, executed, approvedSteps, resumed, created>>

\* the event loop's queues and the history of workflow execution
executorVars == <<ready, sleeping, executed, approvedSteps, resumed, created>>

\* ---------------------------------------------------------------- bounds
MaxDrafts == 1
MaxVersions == 2
MaxWorkflows == 1
\* tasks handed to asyncio.create_task in a run
MaxTasks == 2
\* steps of the longest workflow create_workflow_from_chat builds
MaxSteps == 7
\* drafts, and workflows, side by side where independence of two ids is examined
MaxAggregates == 2

\* ---------------------------------------------------------------- inputs
Users == {"u1", "u2"}
DraftIds == 1..MaxDrafts
VersionIds == 1..MaxVersions
WorkflowIds == 1..MaxWorkflows
StepIds == 1..MaxSteps
Contents == {"text"}
Feedbacks == {"fb"}
Reasons == {"why"}
ModKeys == {"feedback", "clause"}
ModValues == {"m"}
Formats == {"json", "txt", "xml"}

\* the dicts {key: value} of one key over ModKeys and ModValues
ModificationMaps == UNION {[{k} -> ModValues] : k \in ModKeys}

None == <<>>
Some(x) == <<x>>

\* ------------------------------------------------------- DraftVersion
DraftVersion(version_id, content, created_by) ==
    [id |-> version_id, content |-> content, created_by |-> created_by,
     status |-> "pending", user_feedback |-> "None", approved_by |-> "None",
     approved_at |-> "None", rejected_reason |-> "None",
     modifications |-> [k \in {} |-> "m"]]

DraftVersion_to_dict(self) ==
    [id |-> self.id, content |-> self.content, createdBy |-> self.created_by,
     status |-> self.status, userFeedback |-> self.user_feedback,
     approvedBy |-> self.approved_by,
     approvedAt |-> IF self.approved_at # "None" THEN self.approved_at ELSE "None",
     rejectedReason |-> self.rejected_reason,
     modifications |-> self.modifications]

\* ------------------------------------------------------- DocumentDraft
DocumentDraft(draft_id, user_id, chat_id, document_type) ==
    [id |-> draft_id, user_id |-> user_id, chat_id |-> chat_id,
     document_type |-> document_type, status |-> "in_progress",
     current_version |-> 1, versions |-> <<>>, workflow_id |-> "None",
     original_content |-> "None"]

DocumentDraft_to_dict(self) ==
    [id |-> self.id, userId |-> self.user_id, chatId |-> self.chat_id,
     documentType |-> self.document_type, status |-> self.status,
     currentVersion |-> self.current_version,
     totalVersions |-> Len(self.versions),
     versions |-> [i \in 1..Len(self.versions) |-> DraftVersion_to_dict(self.versions[i])],
     workflowId |-> self.workflow_id,
     originalContent |-> IF self.original_content # "None" THEN self.original_content ELSE "None"]

_dict_to_version(version_data) ==
    [DraftVersion(version_data.id, version_data.content, version_data.createdBy)
        EXCEPT !.status = version_data.status,
               !.user_feedback = version_data.userFeedback,
               !.approved_by = version_data.approvedBy,
               !.rejected_reason = version_data.rejectedReason,
               !.modifications = version_data.modifications,
               !.approved_at = version_data.approvedAt]

_dict_to_draft(draft_data) ==
    [DocumentDraft(draft_data.id, draft_data.userId, draft_data.chatId, draft_data.documentType)
        EXCEPT !.status = draft_data.status,
               !.current_version = draft_data.currentVersion,
               !.workflow_id = draft_data.workflowId,
               !.original_content = draft_data.originalContent,
               !.versions = [i \in 1..Len(draft_data.versions) |->
                                _dict_to_version(draft_data.versions[i])]]

\* dict.get(key, default)
DictGet(d, key, default) == IF key \in DOMAIN d THEN d[key] ELSE default

\* dict assignment d[k] = v and deletion del d[k]
SetItem(d, k, v) == [x \in DOMAIN d \cup {k} |-> IF x = k THEN v ELSE d[x]]
DelItem(d, k) == [x \in DOMAIN d \ {k} |-> d[x]]

\* next((v for v in draft.versions if v.id == version_id), None) as an index, 0 for None
FindVersion(versions, version_id) ==
    IF \E i \in 1..Len(versions) : versions[i].id = version_id
    THEN CHOOSE i \in 1..Len(versions) :
            /\ versions[i].id = version_id
            /\ \A j \in 1..(i - 1) : versions[j].id # version_id
    ELSE 0

\* ------------------------------------------------------- DraftingService
get_draft(storage, draft_id) ==
    IF draft_id \in DOMAIN storage THEN Some(_dict_to_draft(storage[draft_id])) ELSE None

\* Every operation returns [ret |-> the value returned, storage |-> DRAFT_STORAGE afterwards].

\* document_type is "None" when omitted; analysis is what loading and analysing the
\* transcript yields: "empty" (no messages, or the transcript could not be loaded),
\* "raises" (the analyzer call raises), "None" (the analyzer found no document intent or
\* failed inside, and answers document_type None), or the detected document type.
ResolveDocumentType(document_type, analysis) ==
    IF document_type # "None" THEN document_type
    ELSE IF analysis \in {"empty", "raises"} THEN "custom_document"
    ELSE analysis

\* DocumentDraft.__init__ calls document_type.replace to build the title, which raises
\* AttributeError on None
DocumentDraftRaises(document_type) == document_type = "None"

\* raised tells that the call ended in an exception (nothing is returned or stored)
create_draft_from_chat(storage, draft_id, user_id, chat_id, document_type, analysis) ==
    LET resolved == ResolveDocumentType(document_type, analysis)
        draft == DocumentDraft(draft_id, user_id, chat_id, resolved)
    IN  IF DocumentDraftRaises(resolved)
        THEN [ret |-> None, storage |-> storage, raised |-> TRUE]
        ELSE [ret |-> draft, raised |-> FALSE,
              storage |-> SetItem(storage, draft_id, DocumentDraft_to_dict(draft))]

create_draft_from_content(storage, draft_id, user_id, chat_content, document_type, analysis) ==
    LET resolved == ResolveDocumentType(document_type, analysis)
        draft == [DocumentDraft(draft_id, user_id, "content", resolved)
                    EXCEPT !.original_content = chat_content]
    IN  IF DocumentDraftRaises(resolved)
        THEN [ret |-> None, storage |-> storage, raised |-> TRUE]
        ELSE [ret |-> draft, raised |-> FALSE,
              storage |-> SetItem(storage, draft_id, DocumentDraft_to_dict(draft))]

\* mutant of Owned: the ownership comparison left out
OwnedIfExists(found, user_id) == found # None

\* "if not draft or draft.user_id != user_id: return <failure>", negated
Owned(found, user_id) == found # None /\ found[1].user_id = user_id

\* mutant of PendingAt: the status comparison left out
PendingAtAnyStatus(versions, i) == i # 0

\* "if not version or version.status != 'pending': return False", negated
PendingAt(versions, i) == i # 0 /\ versions[i].status = "pending"

\* mutant of WithNewVersion: current_version not advanced
WithNewVersionStaleCounter(draft, version) ==
    [draft EXCEPT !.versions = Append(draft.versions, version)]

\* draft.versions.append(version); draft.current_version = len(draft.versions)
WithNewVersion(draft, version) ==
    LET versions == Append(draft.versions, version)
    IN  [draft EXCEPT !.versions = versions, !.current_version = Len(versions)]

generate_draft_version(storage, draft_id, user_id, draft_content, version_id) ==
    LET found == get_draft(storage, draft_id) IN
    IF ~Owned(found, user_id)
    THEN [ret |-> None, storage |-> storage]
    ELSE LET version == DraftVersion(version_id, draft_content, user_id)
         IN  [ret |-> Some(version),
              storage |-> SetItem(storage, draft_id,
                                  DocumentDraft_to_dict(WithNewVersion(found[1], version)))]

\* mutant of Approved: the draft's status not set
ApprovedKeepsDraftStatus(draft, i, user_id, feedback) ==
    [draft EXCEPT !.versions[i].status = "approved",
                  !.versions[i].approved_by = user_id,
                  !.versions[i].approved_at = "now",
                  !.versions[i].user_feedback = feedback]

\* the assignments of a successful approve
Approved(draft, i, user_id, feedback) ==
    [draft EXCEPT !.versions[i].status = "approved",
                  !.versions[i].approved_by = user_id,
                  !.versions[i].approved_at = "now",
                  !.versions[i].user_feedback = feedback,
                  !.status = "completed"]

approve_draft_version(storage, draft_id, version_id, user_id, feedback) ==
    LET found == get_draft(storage, draft_id) IN
    IF ~Owned(found, user_id)
    THEN [ret |-> FALSE, storage |-> storage]
    ELSE LET draft == found[1]
             i == FindVersion(draft.versions, version_id)
         IN  IF ~PendingAt(draft.versions, i)
             THEN [ret |-> FALSE, storage |-> storage]
             ELSE [ret |-> TRUE,
                   storage |-> SetItem(storage, draft_id,
                                  DocumentDraft_to_dict(Approved(draft, i, user_id, feedback)))]

\* mutant of Rejected: the draft's status not set
RejectedKeepsDraftStatus(draft, i, reason, feedback) ==
    [draft EXCEPT !.versions[i].status = "rejected",
                  !.versions[i].rejected_reason = reason,
                  !.versions[i].user_feedback = feedback]

\* the assignments of a successful reject
Rejected(draft, i, reason, feedback) ==
    [draft EXCEPT !.versions[i].status = "rejected",
                  !.versions[i].rejected_reason = reason,
                  !.versions[i].user_feedback = feedback,
                  !.status = "in_progress"]

reject_draft_version(storage, draft_id, version_id, user_id, reason, feedback) ==
    LET found == get_draft(storage, draft_id) IN
    IF ~Owned(found, user_id)
    THEN [ret |-> FALSE, storage |-> storage]
    ELSE LET draft == found[1]
             i == FindVersion(draft.versions, version_id)
         IN  IF ~PendingAt(draft.versions, i)
             THEN [ret |-> FALSE, storage |-> storage]
             ELSE [ret |-> TRUE,
                   storage |-> SetItem(storage, draft_id,
                                  DocumentDraft_to_dict(Rejected(draft, i, reason, feedback)))]

\* mutant of DictUpdate: the dict replaced instead of merged
DictUpdateReplaces(d, other) == other

\* dict.update: keys of other override, the rest is kept
DictUpdate(d, other) ==
    [k \in DOMAIN d \cup DOMAIN other |-> IF k \in DOMAIN other THEN other[k] ELSE d[k]]

\* the assignments of a successful modify
Modified(draft, i, modifications) ==
    [draft EXCEPT !.versions[i].modifications =
                        DictUpdate(draft.versions[i].modifications, modifications),
                  !.versions[i].status = "modified",
                  !.versions[i].user_feedback = DictGet(modifications, "feedback", "")]

modify_draft_version(storage, draft_id, version_id, user_id, modifications) ==
    LET found == get_draft(storage, draft_id) IN
    IF ~Owned(found, user_id)
    THEN [ret |-> FALSE, storage |-> storage]
    ELSE LET draft == found[1]
             i == FindVersion(draft.versions, version_id)
         IN  IF i = 0
             THEN [ret |-> FALSE, storage |-> storage]
             ELSE [ret |-> TRUE,
                   storage |-> SetItem(storage, draft_id,
                                  DocumentDraft_to_dict(Modified(draft, i, modifications)))]

\* the context bundle regenerate builds from the referenced version
RegenerateContext(draft, version_id, feedback) ==
    LET i == FindVersion(draft.versions, version_id) IN
    [previous_version |-> IF i # 0 THEN draft.versions[i].content ELSE "None",
     user_feedback |-> feedback,
     rejection_reason |-> IF i # 0 THEN draft.versions[i].rejected_reason ELSE "None",
     modifications |-> IF i # 0 THEN draft.versions[i].modifications ELSE [k \in {} |-> "m"]]

\* the drafting collaborator: the content it is given to return, whatever the context
_generate_draft_content(context, draft_content) == draft_content

\* mutant of regenerate_draft_version: the feedback written onto the referenced version
regenerate_marks_previous(storage, draft_id, version_id, user_id, feedback, draft_content, new_id) ==
    LET found == get_draft(storage, draft_id) IN
    IF ~Owned(found, user_id)
    THEN [ret |-> None, storage |-> storage]
    ELSE LET i == FindVersion(found[1].versions, version_id)
             marked == IF i = 0 THEN found[1]
                       ELSE [found[1] EXCEPT !.versions[i].user_feedback = feedback]
         IN  generate_draft_version(SetItem(storage, draft_id, DocumentDraft_to_dict(marked)),
                                    draft_id, user_id, draft_content, new_id)

regenerate_draft_version(storage, draft_id, version_id, user_id, feedback, draft_content, new_id) ==
    LET found == get_draft(storage, draft_id) IN
    IF ~Owned(found, user_id)
    THEN [ret |-> None, storage |-> storage]
    ELSE generate_draft_version(storage, draft_id, user_id,
            _generate_draft_content(RegenerateContext(found[1], version_id, feedback),
                                    draft_content),
            new_id)

\* stub diff (_diff_content / _diff_metadata return no change) plus the two statuses
_compare_versions(version_1, version_2) ==
    [content_changes |-> <<>>, metadata_changes |-> <<>>,
     status_changes |-> [from |-> version_1.status, to |-> version_2.status]]

get_draft_comparison(storage, draft_id, version_id_1, version_id_2, user_id) ==
    LET found == get_draft(storage, draft_id) IN
    IF ~Owned(found, user_id)
    THEN [ret |-> None, storage |-> storage]
    ELSE LET draft == found[1]
             i1 == FindVersion(draft.versions, version_id_1)
             i2 == FindVersion(draft.versions, version_id_2)
         IN  IF i1 = 0 \/ i2 = 0
             THEN [ret |-> None, storage |-> storage]
             ELSE [ret |-> Some([version1 |-> DraftVersion_to_dict(draft.versions[i1]),
                                 version2 |-> DraftVersion_to_dict(draft.versions[i2]),
                                 comparison |-> _compare_versions(draft.versions[i1],
                                                                  draft.versions[i2])]),
                   storage |-> storage]

\* picks the first approved version instead of the last one
FirstApprovedIndex(versions) ==
    IF \E i \in 1..Len(versions) : versions[i].status = "approved"
    THEN CHOOSE i \in 1..Len(versions) :
            /\ versions[i].status = "approved"
            /\ \A j \in 1..(i - 1) : versions[j].status # "approved"
    ELSE Len(versions)

\* index of the version export picks: the last approved one, else the last one, 0 if none
LatestVersionIndex(versions) ==
    IF \E i \in 1..Len(versions) : versions[i].status = "approved"
    THEN CHOOSE i \in 1..Len(versions) :
            /\ versions[i].status = "approved"
            /\ \A j \in (i + 1)..Len(versions) : versions[j].status # "approved"
    ELSE Len(versions)

export_draft(storage, draft_id, user_id, format) ==
    LET found == get_draft(storage, draft_id) IN
    IF ~Owned(found, user_id)
    THEN [ret |-> None, storage |-> storage]
    ELSE LET draft == found[1]
             i == LatestVersionIndex(draft.versions)
         IN  IF i = 0
             THEN [ret |-> None, storage |-> storage]
             ELSE IF format \in {"json", "docx", "pdf"}
             THEN [ret |-> Some([kind |-> "json", draft |-> draft.id, status |-> draft.status,
                                 version |-> DraftVersion_to_dict(draft.versions[i])]),
                   storage |-> storage]
             ELSE IF format = "txt"
             THEN [ret |-> Some([kind |-> "text", content |-> draft.versions[i].content]),
                   storage |-> storage]
             ELSE [ret |-> None, storage |-> storage]

\* deletes for any caller
delete_draft_by_anyone(storage, draft_id, user_id) ==
    IF draft_id \in DOMAIN storage
    THEN [ret |-> TRUE, storage |-> DelItem(storage, draft_id)]
    ELSE [ret |-> FALSE, storage |-> storage]

delete_draft(storage, draft_id, user_id) ==
    LET found == get_draft(storage, draft_id) IN
    IF ~Owned(found, user_id)
    THEN [ret |-> FALSE, storage |-> storage]
    ELSE IF draft_id \in DOMAIN storage
    THEN [ret |-> TRUE, storage |-> DelItem(storage, draft_id)]
    ELSE [ret |-> FALSE, storage |-> storage]

\* GET /drafting/{draft_id}: the HTTP status and the draft handed to the requester
endpoint_get_draft(storage, draft_id, user_id) ==
    LET draft == get_draft(storage, draft_id) IN
    IF draft = None THEN [http |-> 404, body |-> None]
    ELSE IF draft[1].user_id # user_id THEN [http |-> 403, body |-> None]
    ELSE [http |-> 200, body |-> Some(DocumentDraft_to_dict(draft[1]))]

\* ------------------------------------------------------- WorkflowService
WorkflowStep(step_id, name) ==
    [id |-> step_id, name |-> name, status |-> "pending", progress |-> 0,
     start_time |-> "None", end_time |-> "None",
     result |-> None, error |-> "None", can_modify |-> FALSE, can_approve |-> FALSE]

WorkflowStep_to_dict(self) ==
    [id |-> self.id, name |-> self.name, status |-> self.status, progress |-> self.progress,
     startTime |-> self.start_time, endTime |-> self.end_time,
     result |-> self.result, error |-> self.error,
     canModify |-> self.can_modify, canApprove |-> self.can_approve]

Workflow(workflow_id, user_id) ==
    [id |-> workflow_id, user_id |-> user_id, status |-> "idle", current_step |-> 0,
     steps |-> <<>>, chat_id |-> "None", draft_id |-> "None"]

\* the serialized workflow carries neither user_id nor chat_id
Workflow_to_dict(self) ==
    [id |-> self.id, status |-> self.status, currentStep |-> self.current_step,
     totalSteps |-> Len(self.steps),
     steps |-> [i \in 1..Len(self.steps) |-> WorkflowStep_to_dict(self.steps[i])],
     draftId |-> self.draft_id]

_dict_to_step(step_data) ==
    [WorkflowStep(step_data.id, step_data.name)
        EXCEPT !.status = step_data.status, !.progress = step_data.progress,
               !.start_time = step_data.startTime, !.end_time = step_data.endTime,
               !.result = step_data.result, !.error = step_data.error,
               !.can_modify = step_data.canModify, !.can_approve = step_data.canApprove]

\* workflow_data.get('user_id', '') finds no such key: the loaded owner is ''
_dict_to_workflow(workflow_data) ==
    [Workflow(workflow_data.id, DictGet(workflow_data, "user_id", ""))
        EXCEPT !.status = workflow_data.status,
               !.current_step = workflow_data.currentStep,
               !.draft_id = workflow_data.draftId,
               !.steps = [i \in 1..Len(workflow_data.steps) |->
                             _dict_to_step(workflow_data.steps[i])]]

\* step names to steps numbered step_1, step_2, ...
NumberSteps(names) == [i \in 1..Len(names) |-> WorkflowStep(i, names[i])]

\* _create_dynamic_workflow_steps adding the 'Key Terms Definition' step unconditionally
_create_dynamic_workflow_steps_always_key_terms(analysis_result) ==
    NumberSteps(
        <<"Information Gathering">>
        \o (IF ~analysis_result.parties_involved THEN <<"Party Information">> ELSE <<>>)
        \o <<"Key Terms Definition">>
        \o (IF ~analysis_result.legal_requirements THEN <<"Legal Requirements">> ELSE <<>>)
        \o <<"Document Generation", "Review & Validation", "Final Approval">>)

_create_dynamic_workflow_steps(analysis_result) ==
    NumberSteps(
        <<"Information Gathering">>
        \o (IF ~analysis_result.parties_involved THEN <<"Party Information">> ELSE <<>>)
        \o (IF ~analysis_result.key_terms THEN <<"Key Terms Definition">> ELSE <<>>)
        \o (IF ~analysis_result.legal_requirements THEN <<"Legal Requirements">> ELSE <<>>)
        \o <<"Document Generation", "Review & Validation", "Final Approval">>)

GenericSteps ==
    NumberSteps(<<"Research", "Extraction", "Drafting", "Validation", "Review">>)

create_workflow_from_chat(storage, workflow_id, user_id, chat_id, analysis_result) ==
    LET steps == IF analysis_result.has_document_intent
                 THEN _create_dynamic_workflow_steps(analysis_result)
                 ELSE GenericSteps
        workflow == [Workflow(workflow_id, user_id) EXCEPT !.chat_id = chat_id, !.steps = steps]
    IN  [ret |-> workflow, storage |-> SetItem(storage, workflow_id, Workflow_to_dict(workflow))]

get_workflow(storage, workflow_id) ==
    IF workflow_id \in DOMAIN storage
    THEN Some(_dict_to_workflow(storage[workflow_id]))
    ELSE None

\* GET /workflows/{workflow_id}
\* the ids of the workflows get_user_workflows returns: those whose stored dict has
\* the requester under 'user_id'
get_user_workflows(storage, user_id) ==
    {w \in DOMAIN storage : DictGet(storage[w], "user_id", "None") = user_id}

endpoint_get_workflow(storage, workflow_id, user_id) ==
    LET workflow == get_workflow(storage, workflow_id) IN
    IF workflow = None THEN [http |-> 404, body |-> None]
    ELSE IF workflow[1].user_id # user_id THEN [http |-> 403, body |-> None]
    ELSE [http |-> 200, body |-> Some(Workflow_to_dict(workflow[1]))]

\* ------------------------------------------------------- workflow control
\* datetime.now()
Now == "t"

\* a coroutine handed to asyncio.create_task with its arguments: the Workflow object
\* and, for _execute_workflow_step, step_index; for _execute_workflow, i is the index
\* the for loop continues with
Task(coro, workflow, i) == [coro |-> coro, workflow |-> workflow, i |-> i]

\* WORKFLOW_STORAGE[workflow.id] = workflow.to_dict()
\* Store writing the workflow under every id of the storage
Store_under_every_id(storage, workflow) ==
    [w \in DOMAIN storage \cup {workflow.id} |-> Workflow_to_dict(workflow)]

Store(storage, workflow) == SetItem(storage, workflow.id, Workflow_to_dict(workflow))

\* create_draft_from_workflow on both stores; the draft is created from the loaded
\* workflow's chat_id, and draft.workflow_id is assigned on the returned object after
\* create_draft_from_chat has stored the draft
create_draft_from_workflow(drafts, workflows, draft_id, workflow_id, user_id, analysis) ==
    LET workflow == get_workflow(workflows, workflow_id) IN
    IF workflow = None \/ workflow[1].user_id # user_id
    THEN [ret |-> None, raised |-> FALSE, drafts |-> drafts, workflows |-> workflows]
    ELSE LET r == create_draft_from_chat(drafts, draft_id, user_id, workflow[1].chat_id,
                                         "None", analysis)
         IN  IF r.raised
             THEN [ret |-> None, raised |-> TRUE, drafts |-> r.storage,
                   workflows |-> workflows]
             ELSE [ret |-> Some(r.ret.id), raised |-> FALSE, drafts |-> r.storage,
                   workflows |-> Store(workflows,
                                       [workflow[1] EXCEPT !.draft_id = r.ret.id])]

\* workflow.steps[index] with status (index counts from 0), when there is such a step
WithStepStatus(workflow, index, status) ==
    IF index < Len(workflow.steps)
    THEN [workflow EXCEPT !.steps[index + 1].status = status]
    ELSE workflow

\* Every control operation returns [ret |-> the value returned, storage |->
\* WORKFLOW_STORAGE afterwards, tasks |-> the tasks it created].

\* sets every step back to 'pending' before starting the first
_start_workflow_resets_steps(storage, workflow) ==
    LET w1 == [workflow EXCEPT !.status = "running", !.current_step = 0,
                 !.steps = [i \in 1..Len(workflow.steps) |->
                              [workflow.steps[i] EXCEPT !.status = "pending"]]]
        w2 == IF Len(w1.steps) > 0
              THEN [w1 EXCEPT !.steps[1].status = "running", !.steps[1].start_time = Now]
              ELSE w1
    IN  [ret |-> Some(w2), storage |-> Store(storage, w2),
         tasks |-> <<Task("_execute_workflow", w2, 0)>>]

_start_workflow(storage, workflow) ==
    LET w1 == [workflow EXCEPT !.status = "running", !.current_step = 0]
        w2 == IF Len(w1.steps) > 0
              THEN [w1 EXCEPT !.steps[1].status = "running", !.steps[1].start_time = Now]
              ELSE w1
    IN  [ret |-> Some(w2), storage |-> Store(storage, w2),
         tasks |-> <<Task("_execute_workflow", w2, 0)>>]

_pause_workflow(storage, workflow) ==
    LET w == WithStepStatus([workflow EXCEPT !.status = "paused"],
                            workflow.current_step, "paused")
    IN  [ret |-> Some(w), storage |-> Store(storage, w), tasks |-> <<>>]

_resume_workflow(storage, workflow) ==
    LET w == WithStepStatus([workflow EXCEPT !.status = "running"],
                            workflow.current_step, "running")
    IN  [ret |-> Some(w), storage |-> Store(storage, w),
         tasks |-> <<Task("_execute_workflow_step", w, w.current_step)>>]

_stop_workflow(storage, workflow) ==
    LET w1 == WithStepStatus([workflow EXCEPT !.status = "error"],
                             workflow.current_step, "error")
        w2 == IF w1.current_step < Len(w1.steps)
              THEN [w1 EXCEPT !.steps[w1.current_step + 1].error = "Workflow stopped by user"]
              ELSE w1
    IN  [ret |-> Some(w2), storage |-> Store(storage, w2), tasks |-> <<>>]

ControlActions == {"start", "pause", "resume", "stop"}

control_workflow(storage, workflow_id, action) ==
    LET found == get_workflow(storage, workflow_id) IN
    IF found = None THEN [ret |-> None, storage |-> storage, tasks |-> <<>>]
    ELSE IF action = "start" THEN _start_workflow(storage, found[1])
    ELSE IF action = "pause" THEN _pause_workflow(storage, found[1])
    ELSE IF action = "resume" THEN _resume_workflow(storage, found[1])
    ELSE IF action = "stop" THEN _stop_workflow(storage, found[1])
    ELSE [ret |-> found, storage |-> storage, tasks |-> <<>>]

\* position in steps of the first step with this id, 0 when there is none
FindStep(steps, step_id) ==
    IF \E i \in 1..Len(steps) : steps[i].id = step_id
    THEN CHOOSE i \in 1..Len(steps) :
            /\ steps[i].id = step_id
            /\ \A j \in 1..(i - 1) : steps[j].id # step_id
    ELSE 0

\* approve_step without the test 'current_step < len(steps) - 1'
approve_step_past_the_end(storage, workflow_id, step_id) ==
    LET found == get_workflow(storage, workflow_id) IN
    IF found = None THEN [ret |-> None, storage |-> storage, tasks |-> <<>>]
    ELSE LET workflow == found[1]
             i == FindStep(workflow.steps, step_id)
         IN  IF i # 0 /\ workflow.steps[i].status = "completed"
             THEN LET w1 == [workflow EXCEPT !.steps[i].can_approve = FALSE,
                                             !.current_step = @ + 1]
                      w2 == IF w1.current_step < Len(w1.steps)
                            THEN [w1 EXCEPT !.steps[w1.current_step + 1].status = "running",
                                            !.steps[w1.current_step + 1].start_time = Now]
                            ELSE w1
                  IN  [ret |-> Some(w2), storage |-> Store(storage, w2),
                       tasks |-> <<Task("_execute_workflow_step", w2, w2.current_step)>>]
             ELSE [ret |-> found, storage |-> storage, tasks |-> <<>>]

approve_step(storage, workflow_id, step_id) ==
    LET found == get_workflow(storage, workflow_id) IN
    IF found = None THEN [ret |-> None, storage |-> storage, tasks |-> <<>>]
    ELSE LET workflow == found[1]
             i == FindStep(workflow.steps, step_id)
         IN  IF i # 0 /\ workflow.steps[i].status = "completed"
             THEN LET w1 == [workflow EXCEPT !.steps[i].can_approve = FALSE]
                      w2 == IF w1.current_step < Len(w1.steps) - 1
                            THEN [w1 EXCEPT !.current_step = @ + 1,
                                            !.steps[w1.current_step + 2].status = "running",
                                            !.steps[w1.current_step + 2].start_time = Now]
                            ELSE w1
                  IN  [ret |-> Some(w2), storage |-> Store(storage, w2),
                       tasks |-> <<Task("_execute_workflow_step", w2, w2.current_step)>>]
             ELSE [ret |-> found, storage |-> storage, tasks |-> <<>>]

\* the dicts passed as modifications to modify_step
EmptyDict == [k \in {} |-> "m"]
StepModifications == {EmptyDict, [content |-> "m"], [note |-> "m"]}

modify_step(storage, workflow_id, step_id, modifications) ==
    LET found == get_workflow(storage, workflow_id) IN
    IF found = None THEN [ret |-> None, storage |-> storage, tasks |-> <<>>]
    ELSE LET workflow == found[1]
             i == FindStep(workflow.steps, step_id)
         IN  IF i # 0 /\ workflow.steps[i].status = "completed"
             THEN LET step == workflow.steps[i]
                      w == IF step.result # None /\ modifications # EmptyDict
                           THEN [workflow EXCEPT
                                   !.steps[i].result = Some(DictUpdate(step.result[1],
                                                                       modifications)),
                                   !.steps[i].can_modify = FALSE]
                           ELSE workflow
                  IN  [ret |-> Some(w), storage |-> Store(storage, w), tasks |-> <<>>]
             ELSE [ret |-> found, storage |-> storage, tasks |-> <<>>]

\* ------------------------------------------------------- workflow execution
\* the handlers that end with step.can_approve = True (all but _execute_review_step) and
\* with step.can_modify = True (_execute_drafting_step), by the step name they are
\* dispatched on
HandlerSetsCanApprove(name) == name # "Review"
HandlerSetsCanModify(name) == name = "Drafting"

\* the payload a handler assigns to step.result (the dict is modelled by value)
HandlerResult == [type |-> "type", content |-> "content"]

\* a step whose raising handler marks the step but not the workflow
_execute_workflow_step_keeping_status(storage, workflow, step_index, raises) ==
    IF step_index >= Len(workflow.steps)
    THEN [workflow |-> workflow, storage |-> storage, ran |-> FALSE]
    ELSE LET step == workflow.steps[step_index + 1]
             handled == IF raises
                        THEN [step EXCEPT !.status = "error", !.error = "raised",
                                          !.start_time = Now]
                        ELSE [step EXCEPT
                                !.start_time = Now,
                                !.result = Some(HandlerResult),
                                !.status = "completed",
                                !.can_approve = @ \/ HandlerSetsCanApprove(step.name),
                                !.can_modify = @ \/ HandlerSetsCanModify(step.name)]
             finally == [handled EXCEPT !.end_time = Now, !.progress = 100]
             w == [workflow EXCEPT !.steps[step_index + 1] = finally]
         IN  [workflow |-> w, storage |-> Store(storage, w), ran |-> TRUE]

\* One call of _execute_workflow_step; raises tells whether the handler raises.  The
\* call has no suspension point: the stores it makes on the way are overwritten by the
\* one in its finally block.  ran tells whether a step was executed.
_execute_workflow_step(storage, workflow, step_index, raises) ==
    IF step_index >= Len(workflow.steps)
    THEN [workflow |-> workflow, storage |-> storage, ran |-> FALSE]
    ELSE LET step == workflow.steps[step_index + 1]
             started == [step EXCEPT !.status = "running", !.start_time = Now,
                                     !.progress = 0]
             handled == IF raises
                        THEN [started EXCEPT !.status = "error", !.error = "raised"]
                        ELSE [started EXCEPT
                                !.result = Some(HandlerResult),
                                !.status = "completed",
                                !.can_approve = @ \/ HandlerSetsCanApprove(step.name),
                                !.can_modify = @ \/ HandlerSetsCanModify(step.name)]
             finally == [handled EXCEPT !.end_time = Now, !.progress = 100]
             w == [workflow EXCEPT !.steps[step_index + 1] = finally,
                                   !.status = IF raises THEN "error" ELSE @]
         IN  [workflow |-> w, storage |-> Store(storage, w), ran |-> TRUE]

\* _execute_workflow from the loop index i up to its next asyncio.sleep(1) (sleeps, with
\* the index the loop continues with) or its return; ran lists the steps executed.  The
\* except branch of _execute_workflow is not reached: _execute_workflow_step catches
\* what its handler raises.
RECURSIVE _execute_workflow(_, _, _, _)
_execute_workflow(storage, workflow, i, raises) ==
    IF i >= Len(workflow.steps) \/ workflow.status # "running"
    THEN LET w == IF workflow.status = "running"
                  THEN [workflow EXCEPT !.status = "completed"]
                  ELSE workflow
         IN  [workflow |-> w, ran |-> <<>>, sleeps |-> FALSE, i |-> i,
              storage |-> IF workflow.status = "running" THEN Store(storage, w)
                          ELSE storage]
    ELSE LET r == _execute_workflow_step(storage, [workflow EXCEPT !.current_step = i],
                                         i, raises)
         IN  IF r.workflow.status = "running" /\ r.workflow.steps[i + 1].can_approve
             THEN [workflow |-> r.workflow, ran |-> <<i>>, sleeps |-> TRUE, i |-> i + 1,
                   storage |-> r.storage]
             ELSE LET rest == _execute_workflow(r.storage, r.workflow, i + 1, raises)
                  IN  [rest EXCEPT !.ran = <<i>> \o @]

\* a task of the event loop run up to its next suspension: the store afterwards, the
\* steps it executed, and the task again if it went to sleep
\* an executor that is not resumed after its second of sleep
RunTask_without_wakeup(storage, task, raises) ==
    IF task.coro = "_execute_workflow"
    THEN LET r == _execute_workflow(storage, task.workflow, task.i, raises)
         IN  [storage |-> r.storage, ran |-> r.ran, sleeps |-> <<>>]
    ELSE LET r == _execute_workflow_step(storage, task.workflow, task.i, raises)
         IN  [storage |-> r.storage, ran |-> IF r.ran THEN <<task.i>> ELSE <<>>,
              sleeps |-> <<>>]

RunTask(storage, task, raises) ==
    IF task.coro = "_execute_workflow"
    THEN LET r == _execute_workflow(storage, task.workflow, task.i, raises)
         IN  [storage |-> r.storage, ran |-> r.ran,
              sleeps |-> IF r.sleeps THEN <<Task("_execute_workflow", r.workflow, r.i)>>
                         ELSE <<>>]
    ELSE LET r == _execute_workflow_step(storage, task.workflow, task.i, raises)
         IN  [storage |-> r.storage, ran |-> IF r.ran THEN <<task.i>> ELSE <<>>,
              sleeps |-> <<>>]

\* what the conversation analyzer may report for a transcript
WorkflowAnalyses ==
    {[has_document_intent |-> FALSE, parties_involved |-> FALSE, key_terms |-> FALSE,
      legal_requirements |-> FALSE],
     [has_document_intent |-> TRUE, parties_involved |-> TRUE, key_terms |-> TRUE,
      legal_requirements |-> TRUE],
     [has_document_intent |-> TRUE, parties_involved |-> FALSE, key_terms |-> TRUE,
      legal_requirements |-> FALSE]}

\* ------------------------------------------------------- dynamic schema and form
\* A conversation text is the set of its lines, taken from Lines.  The code reads a text
\* through substring tests against its keyword lists and through regular expressions on
\* single lines; KeywordsIn, NameIn, AmountIn and DurationIn tell for each line what
\* these find.  At most one line of Lines matches any one party or field pattern, so the
\* order of the lines does not matter.
Lines ==
    {"My employer is John Kamau", "the network is down", "lease term of 12 months",
     "salary of 50,000 shillings", "debt owed", "hello there"}

Conversations == SUBSET Lines

\* the keywords of the code's lists that are substrings of line.lower()
KeywordsIn(line) ==
    CASE line = "My employer is John Kamau" -> {"employer"}
      [] line = "the network is down" -> {"work"}
      [] line = "lease term of 12 months" -> {"lease", "term"}
      [] line = "salary of 50,000 shillings" -> {"salary"}
      [] line = "debt owed" -> {"debt", "owed"}
      [] OTHER -> {}

\* re.findall(r'([A-Z][a-z]+ [A-Z][a-z]+)', line)[0], "None" when no name pattern matches
NameIn(line) == IF line = "My employer is John Kamau" THEN "John Kamau" ELSE "None"

\* the amount before shillings/ksh/usd/dollars, "None" when there is none
AmountIn(line) == IF line = "salary of 50,000 shillings" THEN "50,000" ELSE "None"

\* the number before months/years/weeks/days, "None" when there is none
DurationIn(line) == IF line = "lease term of 12 months" THEN "12" ELSE "None"

\* any(word in conversation_lower for word in words); re.findall(pattern, text, re.I)
Mentions(text, words) == \E line \in text : KeywordsIn(line) \cap words # {}

\* str.replace('_', ' ') on the party names of the code
ReplaceUnderscore(party) == IF party = "service_provider" THEN "service provider" ELSE party

EmploymentWords == {"employment", "employee", "employer", "job", "work"}
LeaseWords == {"lease", "rent", "tenant", "landlord", "property"}
PartnershipWords == {"partnership", "business", "company", "venture"}
ServiceWords == {"service", "consulting", "freelance", "contractor"}
DemandWords == {"demand", "payment", "debt", "owed"}
PlaintWords == {"court", "plaint", "lawsuit", "case"}
AffidavitWords == {"affidavit", "sworn", "statement", "witness"}

\* DynamicFormGenerator._detect_document_type
_detect_document_type(text) ==
    IF Mentions(text, EmploymentWords) THEN "employment_contract"
    ELSE IF Mentions(text, LeaseWords) THEN "lease_agreement"
    ELSE IF Mentions(text, PartnershipWords) THEN "partnership_agreement"
    ELSE IF Mentions(text, ServiceWords) THEN "service_agreement"
    ELSE IF Mentions(text, DemandWords) THEN "demand_letter"
    ELSE IF Mentions(text, PlaintWords) THEN "plaint"
    ELSE IF Mentions(text, AffidavitWords) THEN "affidavit"
    ELSE "custom_document"

DocumentTypeNames ==
    {"employment_contract", "lease_agreement", "partnership_agreement", "service_agreement",
     "demand_letter", "plaint", "affidavit", "custom_document"}

_extract_legal_requirements(text) ==
    (IF Mentions(text, {"confidentiality", "nda"}) THEN <<"confidentiality_clause">> ELSE <<>>)
    \o (IF Mentions(text, {"non-compete", "restrictive"}) THEN <<"non_compete_clause">>
        ELSE <<>>)
    \o (IF Mentions(text, {"termination", "notice"}) THEN <<"termination_procedures">>
        ELSE <<>>)
    \o (IF Mentions(text, {"dispute", "arbitration"}) THEN <<"dispute_resolution">> ELSE <<>>)

_extract_business_terms(text) ==
    (IF Mentions(text, {"salary", "payment", "compensation", "fee"})
     THEN <<"financial_terms">> ELSE <<>>)
    \o (IF Mentions(text, {"duration", "period", "term", "length"})
        THEN <<"duration_terms">> ELSE <<>>)
    \o (IF Mentions(text, {"performance", "evaluation", "review"})
        THEN <<"performance_terms">> ELSE <<>>)

_analyze_conversation_context(text) ==
    LET base == [name |-> "Dynamic Document",
                 description |-> "Generated based on conversation context",
                 category |-> "general", jurisdiction |-> "kenya",
                 parties_involved |-> <<>>, key_topics |-> <<>>,
                 legal_requirements |-> _extract_legal_requirements(text),
                 business_terms |-> _extract_business_terms(text)]
    IN  IF Mentions(text, EmploymentWords)
        THEN [base EXCEPT !.name = "Employment Contract", !.category = "employment",
                          !.parties_involved = <<"employer", "employee">>,
                          !.key_topics = <<"salary", "working hours", "benefits",
                                           "termination">>]
        ELSE IF Mentions(text, LeaseWords)
        THEN [base EXCEPT !.name = "Lease Agreement", !.category = "property",
                          !.parties_involved = <<"landlord", "tenant">>,
                          !.key_topics = <<"rent", "duration", "property details",
                                           "utilities">>]
        ELSE IF Mentions(text, PartnershipWords)
        THEN [base EXCEPT !.name = "Partnership Agreement", !.category = "business",
                          !.parties_involved = <<"partner1", "partner2">>,
                          !.key_topics = <<"capital", "profit sharing", "management",
                                           "dissolution">>]
        ELSE IF Mentions(text, ServiceWords)
        THEN [base EXCEPT !.name = "Service Agreement", !.category = "services",
                          !.parties_involved = <<"client", "service_provider">>,
                          !.key_topics = <<"scope", "payment", "deliverables", "timeline">>]
        ELSE base

\* the field dicts of _generate_field_discovery; role and validation are "None" where the
\* dict has no such key, pattern is the set of the alternatives of the regular expression
PartyField(party) ==
    [pattern |-> {party, ReplaceUnderscore(party)}, field_type |-> "party", role |-> party,
     validation |-> "None", priority |-> "critical"]

TopicFields(topic) ==
    IF topic = "salary"
    THEN <<[pattern |-> {"salary", "compensation", "payment", "remuneration"},
            field_type |-> "currency", role |-> "None", validation |-> "required",
            priority |-> "high"]>>
    ELSE IF topic = "duration"
    THEN <<[pattern |-> {"duration", "period", "term", "length"},
            field_type |-> "duration", role |-> "None", validation |-> "required",
            priority |-> "high"]>>
    ELSE <<>>

\* the dict category -> list of fields, in insertion order
_generate_field_discovery(characteristics) ==
    LET parties == characteristics.parties_involved
        topics == characteristics.key_topics
    IN  (IF parties # <<>>
         THEN <<[category |-> "parties",
                 fields |-> [i \in 1..Len(parties) |-> PartyField(parties[i])]]>>
         ELSE <<>>)
        \o [i \in 1..Len(topics) |-> [category |-> topics[i],
                                      fields |-> TopicFields(topics[i])]]

\* the schema dict create_dynamic_schema builds from the characteristics; the name always
\* comes from the characteristics, which always carry one, so document_type is not read
SchemaOf(characteristics) ==
    LET parties == characteristics.parties_involved
        topics == characteristics.key_topics
    IN  [name |-> characteristics.name,
         description |-> characteristics.description,
         category |-> characteristics.category,
         jurisdiction |-> characteristics.jurisdiction,
         field_discovery |-> _generate_field_discovery(characteristics),
         field_generation |->
            [auto_fields |-> [i \in 1..Len(parties) |-> parties[i] \o "_details"],
             conditional_fields |-> <<"confidentiality_scope", "duration", "penalties">>],
         validation |-> [required_sections |-> topics,
                         legal_requirements |-> characteristics.legal_requirements,
                         business_logic |-> <<"start_date <= end_date", "amount >= 0">>],
         templates |-> [standard |-> [name |-> "Standard " \o characteristics.name,
                                      sections |-> topics]],
         review_workflow |-> <<"Information Gathering", "Legal Compliance",
                               "Business Terms", "Document Generation">>,
         user_interaction |->
            [i \in 1..Len(parties) |-> "What are the details for " \o parties[i] \o "?"]
            \o [i \in 1..Len(topics) |-> "What are the " \o topics[i] \o "?"]]

\* create_dynamic_schema answering with the schema saved for the document type, if any
create_dynamic_schema_from_saved(document_type, conversation_context) ==
    IF document_type \in DOMAIN schemas
    THEN schemas[document_type]
    ELSE SchemaOf(_analyze_conversation_context(conversation_context))

create_dynamic_schema(document_type, conversation_context) ==
    SchemaOf(_analyze_conversation_context(conversation_context))

\* _extract_party_details: the name found on a line that matches the party pattern
_extract_party_details(text, pattern) ==
    LET named == {line \in text : KeywordsIn(line) \cap pattern # {} /\ NameIn(line) # "None"}
    IN  IF named = {} THEN None ELSE Some([name |-> NameIn(CHOOSE line \in named : TRUE)])

\* _extract_field_value: None, or the value found on a line that matches the pattern
_extract_field_value(text, pattern, field_type) ==
    LET Value(line) == IF field_type = "currency" THEN AmountIn(line)
                       ELSE IF field_type = "duration" THEN DurationIn(line)
                       ELSE "None"
        valued == {line \in text : KeywordsIn(line) \cap pattern # {} /\ Value(line) # "None"}
    IN  IF valued = {} THEN None ELSE Some(Value(CHOOSE line \in valued : TRUE))

\* the fields of a schema with their categories, in the order the loops visit them
RECURSIVE FieldsOf(_)
FieldsOf(field_discovery) ==
    IF field_discovery = <<>> THEN <<>>
    ELSE LET entry == Head(field_discovery)
         IN  [i \in 1..Len(entry.fields) |->
                 [category |-> entry.category, field |-> entry.fields[i]]]
             \o FieldsOf(Tail(field_discovery))

\* f"{category}_{field.get('role', 'value')}"
FieldName(entry) ==
    entry.category \o "_" \o (IF entry.field.role = "None" THEN "value" ELSE entry.field.role)

_extract_information_from_conversation(text, a_schema) ==
    LET all == FieldsOf(a_schema.field_discovery)
        Key(e) == IF e.category = "parties" THEN e.field.role ELSE e.category
        Found(e) == IF ~Mentions(text, e.field.pattern) THEN None
                    ELSE IF e.category = "parties"
                    THEN _extract_party_details(text, e.field.pattern)
                    ELSE _extract_field_value(text, e.field.pattern, e.field.field_type)
        found == {i \in 1..Len(all) : Found(all[i]) # None}
    IN  [k \in {Key(all[i]) : i \in found} |->
            Found(all[CHOOSE i \in found : Key(all[i]) = k])[1]]

_map_field_type(schema_type) ==
    CASE schema_type \in {"currency", "duration"} -> "number"
      [] schema_type = "boolean" -> "select"
      [] schema_type \in {"textarea", "number", "date", "select"} -> schema_type
      [] OTHER -> "text"

\* the keys of the field config that tell what kind of field it is and whether it is
\* required and prefilled; label, validation, extraction_patterns and options are left out
_create_field_config(field, extracted_info) ==
    [type |-> _map_field_type(field.field_type),
     required |-> field.validation = "required",
     priority |-> field.priority,
     prefilled_value |-> IF field.role \in DOMAIN extracted_info
                         THEN Some(extracted_info[field.role])
                         ELSE None]

_generate_form_structure(a_schema, extracted_info) ==
    LET all == FieldsOf(a_schema.field_discovery)
    IN  [fields |-> [name \in {FieldName(all[i]) : i \in 1..Len(all)} |->
                        _create_field_config(
                            all[CHOOSE i \in 1..Len(all) :
                                   /\ FieldName(all[i]) = name
                                   /\ \A j \in (i + 1)..Len(all) : FieldName(all[j]) # name
                               ].field, extracted_info)],
         field_order |-> [i \in 1..Len(all) |-> FieldName(all[i])],
         sections |-> [k \in 1..Len(a_schema.field_discovery) |->
                          LET entry == a_schema.field_discovery[k]
                          IN  [name |-> entry.category,
                               fields |-> [i \in 1..Len(entry.fields) |->
                                              FieldName([category |-> entry.category,
                                                         field |-> entry.fields[i]])]]]]

_identify_missing_info(a_schema, extracted_info) ==
    LET all == FieldsOf(a_schema.field_discovery)
        Missing(e) == e.field.validation = "required" /\ FieldName(e) \notin DOMAIN extracted_info
        missing == SelectSeq(all, Missing)
    IN  [i \in 1..Len(missing) |-> FieldName(missing[i])]

\* the form without its validation_rules and interaction_flow, which repeat parts of the
\* schema; next_questions is None until update_form_with_user_input adds the key
generate_form_from_conversation(text) ==
    LET document_type == _detect_document_type(text)
        a_schema == create_dynamic_schema(document_type, text)
        extracted_info == _extract_information_from_conversation(text, a_schema)
    IN  [document_type |-> document_type,
         schema |-> a_schema,
         form_structure |-> _generate_form_structure(a_schema, extracted_info),
         extracted_info |-> extracted_info,
         missing_info |-> _identify_missing_info(a_schema, extracted_info),
         next_questions |-> None]

_generate_next_questions(missing_info) ==
    [i \in 1..Len(missing_info) |->
        CASE missing_info[i] = "salary_value" -> "What is the agreed salary/compensation amount?"
          [] missing_info[i] = "duration_value" -> "What is the contract duration/period?"
          [] OTHER -> "Please provide " \o missing_info[i]]

update_form_with_user_input(form_data, user_input) ==
    LET extracted_info == DictUpdate(form_data.extracted_info, user_input)
        missing_info == _identify_missing_info(form_data.schema, extracted_info)
    IN  [form_data EXCEPT !.extracted_info = extracted_info,
                          !.missing_info = missing_info,
                          !.next_questions = Some(_generate_next_questions(missing_info))]

\* what the user may answer
UserInputs ==
    {EmptyDict, [salary_value |-> "60,000"], [duration_value |-> "24"],
     [employer |-> [name |-> "Acme"]]}

\* ------------------------------------------------------- agent form generator
\* agent/dynamic_form_generator.py.  A field definition is the dict of its type, required
\* flag and priority; the EntityMapper's form structure comes from its configuration and
\* the additional fields from the LLM, so both are inputs.
FieldNames == {"party_name", "amount"}
BaseField == [type |-> "text", required |-> FALSE, priority |-> "medium"]
ProposedField == [type |-> "number", required |-> FALSE, priority |-> "low"]

\* entity_mapper.generate_form_structure(document_type, extracted_info): None for {} (the
\* document type is not configured)
BaseFormStructures ==
    {None} \cup {Some([document_type |-> "contract", fields |-> [n \in names |-> BaseField],
                       validation_rules |-> [n \in names |-> "rules"],
                       prefilled_data |-> EmptyDict]) : names \in SUBSET FieldNames}

\* requirements of the conversation analysis: required_fields and missing_fields
FormRequirements == [required_fields : SUBSET FieldNames, missing_fields : SUBSET FieldNames]

\* what _generate_additional_fields may return: the LLM's additional_fields, {} on failure
AdditionalFields == {[n \in names |-> ProposedField] : names \in SUBSET FieldNames}

\* entity_mapper.get_priorities(), 2 for a priority it does not know
PriorityOf(field) ==
    CASE field.priority \in {"critical", "high"} -> 1
      [] field.priority = "low" -> 3
      [] OTHER -> 2

_customize_fields_from_requirements(form_structure, requirements) ==
    LET fields == form_structure.fields
        added == [n \in DOMAIN fields \cup requirements.required_fields |->
                     IF n \in DOMAIN fields THEN fields[n]
                     ELSE [type |-> "text", required |-> TRUE, priority |-> "high"]]
    IN  [n \in DOMAIN added |->
            IF n \in requirements.missing_fields
            THEN [added[n] EXCEPT !.required = TRUE]
            ELSE added[n]]

\* sorted(fields.items(), key=priority): a list of all keys in priority order (ties keep
\* the dict's insertion order in the code; here some order)
_determine_field_order(fields) ==
    CHOOSE order \in [1..Cardinality(DOMAIN fields) -> DOMAIN fields] :
       /\ \A n \in DOMAIN fields : \E i \in DOMAIN order : order[i] = n
       /\ \A i, j \in DOMAIN order :
             i < j => PriorityOf(fields[order[i]]) <= PriorityOf(fields[order[j]])

\* form_structure is what the EntityMapper answered, additional_fields what
\* _generate_additional_fields returned; {**customized_fields, **additional_fields}
generate_form(document_type, form_structure, requirements, additional_fields) ==
    IF form_structure = None
    THEN [document_type |-> document_type, fields |-> EmptyDict, field_order |-> <<>>,
          validation_rules |-> EmptyDict, prefilled_data |-> EmptyDict]
    ELSE LET customized_fields ==
                 _customize_fields_from_requirements(form_structure[1], requirements)
             all_fields == DictUpdate(customized_fields, additional_fields)
         IN  [document_type |-> form_structure[1].document_type,
              fields |-> all_fields,
              field_order |-> _determine_field_order(all_fields),
              validation_rules |-> form_structure[1].validation_rules,
              prefilled_data |-> form_structure[1].prefilled_data]

\* ------------------------------------------------------- conversation analyzer
\* agent/conversation_analyzer.py.  What analyze_conversation meets on its way is an
\* input: whether reading the messages raises, whether the text has one of the
\* explicit-creation keywords, and what each collaborator does when it is consulted.
\* Confidences are in tenths.
AnalyzerRuns ==
    [text : {"raises", "plain", "explicit"},
     mapping : {"raises", "none", "found"},
     llm : {"raises", "unparseable", "low", "high"},
     mapper : {"raises", "none", "found"},
     requirements : {"raises", "ok"},
     key_information : {"raises", "ok"}]

\* the dict both the no-intent branch and the except branch of analyze_conversation return
NoDocumentIntent ==
    [has_document_intent |-> FALSE, document_type |-> "None", confidence |-> 0,
     requirements |-> "{}", extracted_info |-> "{}"]

\* _detect_document_intent: raised tells that an exception leaves it
_detect_document_intent(run) ==
    LET none == [raised |-> FALSE, has_intent |-> FALSE, document_type |-> "None",
                 confidence |-> 0]
    IN  IF run.mapping = "raises" THEN [none EXCEPT !.raised = TRUE]
        ELSE IF run.text # "explicit" THEN none
        ELSE IF run.llm = "high"
        THEN [none EXCEPT !.has_intent = TRUE, !.document_type = "employment contract",
                          !.confidence = 9]
        ELSE IF run.mapping = "found"
        THEN [none EXCEPT !.has_intent = TRUE, !.document_type = "employment_contract",
                          !.confidence = 8]
        ELSE IF run.mapper = "found"
        THEN [none EXCEPT !.has_intent = TRUE, !.document_type = "employment_contract",
                          !.confidence = 6]
        ELSE none

\* _extract_requirements and _extract_key_information catch what they meet and return
\* their dicts of empty lists
analyze_conversation(run) ==
    IF run.text = "raises" THEN NoDocumentIntent
    ELSE LET document_intent == _detect_document_intent(run)
         IN  IF document_intent.raised THEN NoDocumentIntent
             ELSE IF document_intent.has_intent
             THEN [has_document_intent |-> TRUE,
                   document_type |-> document_intent.document_type,
                   confidence |-> document_intent.confidence,
                   requirements |-> IF run.requirements = "raises" THEN "empty lists"
                                    ELSE "extracted",
                   extracted_info |-> IF run.key_information = "raises" THEN "empty lists"
                                      ELSE "extracted"]
             ELSE NoDocumentIntent

\* ------------------------------------------------------- intent orchestrator
\* agent/intent_orchestrator.py.  A query is the set of the phrases it is made of;
\* ContainedIn gives the words of _detect_intent's lists that are substrings of a phrase.
QueryPhrases ==
    {"extract", "document", "draft", "demand letter", "plaint", "research", "review",
     "complex"}

Queries == SUBSET QueryPhrases

ContainedIn(phrase) ==
    CASE phrase = "demand letter" -> {"letter", "demand letter"}
      [] phrase = "research" -> {"research", "search"}
      [] OTHER -> {phrase}

\* any(word in query_lower for word in words)
AnyWordIn(user_query, words) ==
    \E phrase \in user_query : ContainedIn(phrase) \cap words # {}

\* self.llm.invoke(intent_prompt) returns or raises
LlmOutcomes == {"returns", "raises"}

Escalation(reasoning) ==
    [next_action |-> "escalate_to_human", tool_to_use |-> "escalate_to_human",
     reasoning |-> reasoning]

\* the for loop over the document types of a drafting request
DraftedDocumentType(user_query) ==
    IF AnyWordIn(user_query, {"demand letter", "demand_letter"}) THEN "demand_letter"
    ELSE IF AnyWordIn(user_query, {"plaint"}) THEN "plaint"
    ELSE IF AnyWordIn(user_query, {"brief"}) THEN "brief"
    ELSE IF AnyWordIn(user_query, {"affidavit"}) THEN "affidavit"
    ELSE "None"

_detect_intent(user_query, llm) ==
    IF llm = "raises" THEN Escalation("Intent detection error")
    ELSE IF /\ AnyWordIn(user_query, {"extract", "summarize", "analyze", "parse", "read"})
            /\ AnyWordIn(user_query, {"document", "pdf", "docx", "file"})
    THEN [next_action |-> "extract_document", tool_to_use |-> "extract_document",
          reasoning |-> "Extraction request detected"]
    ELSE IF /\ AnyWordIn(user_query, {"draft", "create", "write", "prepare", "generate"})
            /\ AnyWordIn(user_query, {"letter", "document", "plaint", "brief", "affidavit"})
    THEN LET doc_type == DraftedDocumentType(user_query)
         IN  IF doc_type # "None"
             THEN [next_action |-> "draft_document", tool_to_use |-> doc_type,
                   reasoning |-> "Drafting request detected for " \o doc_type]
             ELSE [next_action |-> "draft_document", tool_to_use |-> "demand_letter",
                   reasoning |-> "Drafting request detected (default to demand_letter)"]
    ELSE IF AnyWordIn(user_query, {"research", "find", "search", "case law", "statute",
                                   "precedent", "legal information"})
    THEN [next_action |-> "research_kenyan_law", tool_to_use |-> "research_kenyan_law",
          reasoning |-> "Research query detected"]
    ELSE IF AnyWordIn(user_query, {"review", "check", "examine", "verify", "compliance"})
    THEN [next_action |-> "review_legal_document", tool_to_use |-> "review_legal_document",
          reasoning |-> "Review request detected"]
    ELSE IF AnyWordIn(user_query, {"complex", "unclear", "multiple parties", "fraud",
                                   "complicated"})
    THEN Escalation("Complex or unclear request")
    ELSE Escalation("Unclear intent - escalating to human")

\* ------------------------------------------------------- chat content parser
\* DraftingService._parse_chat_content.  A line of the content is its head, the part up
\* to and with the first colon of a line that has one ("" otherwise), and the stripped
\* text after it; the blank line has neither.
MaxLines == 4

ChatLines ==
    {[head |-> "", text |-> ""], [head |-> "", text |-> "hello"],
     [head |-> "User:", text |-> "hi"], [head |-> "WAKILI:", text |-> ""],
     [head |-> "note:", text |-> "x"]}

ChatContents == UNION {[1..n -> ChatLines] : n \in 0..MaxLines}

\* line.lower() on the heads
LowerOf(head) ==
    CASE head = "User:" -> "user:"
      [] head = "WAKILI:" -> "wakili:"
      [] OTHER -> head

\* the role a line opens a message for, "None" for a line without role prefix
RoleOf(line) ==
    IF LowerOf(line.head) \in {"user:", "human:", "client:"} THEN "user"
    ELSE IF LowerOf(line.head) \in {"assistant:", "ai:", "bot:", "wakili:"} THEN "assistant"
    ELSE "None"

\* line.strip()
StrippedLine(line) ==
    IF line.head = "" THEN line.text
    ELSE IF line.text = "" THEN line.head
    ELSE line.head \o " " \o line.text

\* '\n'.join(current_content).strip(): only the first element can be ''
RECURSIVE JoinLines(_)
JoinLines(current_content) ==
    IF current_content = <<>> THEN ""
    ELSE IF Len(current_content) = 1 THEN current_content[1]
    ELSE IF current_content[1] = "" THEN JoinLines(Tail(current_content))
    ELSE current_content[1] \o "\n" \o JoinLines(Tail(current_content))

\* the save of the open message before a new one is opened and after the loop
SaveMessage(messages, current_role, current_content) ==
    IF current_role # "None" /\ current_content # <<>>
    THEN Append(messages, [role |-> current_role, content |-> JoinLines(current_content)])
    ELSE messages

\* the for loop from line i on
RECURSIVE ParseLines(_, _, _, _, _)
ParseLines(lines, i, messages, current_role, current_content) ==
    IF i > Len(lines) THEN SaveMessage(messages, current_role, current_content)
    ELSE LET line == lines[i] IN
         IF StrippedLine(line) = ""
         THEN ParseLines(lines, i + 1, messages, current_role, current_content)
         ELSE IF RoleOf(line) # "None"
         THEN ParseLines(lines, i + 1, SaveMessage(messages, current_role, current_content),
                         RoleOf(line), <<line.text>>)
         ELSE IF current_role # "None"
         THEN ParseLines(lines, i + 1, messages, current_role,
                         Append(current_content, StrippedLine(line)))
         ELSE ParseLines(lines, i + 1, messages, current_role, current_content)

\* a parser that saves a message only when its first line has text after the prefix
_parse_chat_content_dropping_bare_prefix(chat_content) ==
    LET messages == ParseLines(chat_content, 1, <<>>, "None", <<>>)
    IN  SelectSeq(messages, LAMBDA m : m.content # "")

_parse_chat_content(chat_content) ==
    ParseLines(chat_content, 1, <<>>, "None", <<>>)

\* ------------------------------------------------------- state machine
\* lastCall records the latest call: the operation, whether it succeeded (returned
\* neither None nor False), the case its arguments fell in before it ran ("no_draft",
\* "foreign" for a caller who is not the owner, "no_version", or the status of the
\* referenced version), the status the draft had before it, and for an endpoint the
\* HTTP status answered (0 for a service call).
CaseOf(storage, draft_id, version_id, user_id) ==
    IF draft_id \notin DOMAIN storage THEN "no_draft"
    ELSE IF storage[draft_id].userId # user_id THEN "foreign"
    ELSE LET i == FindVersion(storage[draft_id].versions, version_id)
         IN  IF i = 0 THEN "no_version" ELSE storage[draft_id].versions[i].status

DraftStatusIn(storage, draft_id) ==
    IF draft_id \in DOMAIN storage THEN storage[draft_id].status ELSE "absent"

Call(op, id, version_id, user_id, ok, http) ==
    [op |-> op, ok |-> ok, http |-> http,
     was |-> CaseOf(DRAFT_STORAGE, id, version_id, user_id),
     draft_was |-> DraftStatusIn(DRAFT_STORAGE, id)]

WorkflowCall(op, workflow_id, user_id, ok, http) ==
    [op |-> op, ok |-> ok, http |-> http,
     was |-> IF workflow_id \notin DOMAIN WORKFLOW_STORAGE THEN "no_workflow"
             ELSE IF workflowCreator[workflow_id] # user_id THEN "foreign"
             ELSE "own",
     draft_was |-> "absent"]

\* a draft operation applied to the store
Apply(op, id, version_id, user_id, r, ok) ==
    /\ DRAFT_STORAGE' = r.storage
    /\ lastCall' = Call(op, id, version_id, user_id, ok, 0)
    /\ UNCHANGED <<formVars, WORKFLOW_STORAGE, workflowCreator, nextWorkflow, executorVars>>

DocumentTypes == {"None"}
Analyses == {"empty", "None"}

CreateDraftFromChat ==
    /\ nextDraft <= MaxDrafts
    /\ \E user_id \in Users, document_type \in DocumentTypes, analysis \in Analyses :
          LET r == create_draft_from_chat(DRAFT_STORAGE, nextDraft, user_id, "chat",
                                          document_type, analysis)
          IN  /\ Apply("create_draft_from_chat", nextDraft, 0, user_id, r, ~r.raised)
              /\ nextDraft' = IF r.raised THEN nextDraft ELSE nextDraft + 1
    /\ UNCHANGED nextVersion

CreateDraftFromContentFor(max_drafts, users) ==
    /\ nextDraft <= max_drafts
    /\ \E user_id \in users, document_type \in DocumentTypes, analysis \in Analyses :
          LET r == create_draft_from_content(DRAFT_STORAGE, nextDraft, user_id,
                                             "user: hello", document_type, analysis)
          IN  /\ Apply("create_draft_from_content", nextDraft, 0, user_id, r, ~r.raised)
              /\ nextDraft' = IF r.raised THEN nextDraft ELSE nextDraft + 1
    /\ UNCHANGED nextVersion

CreateDraftFromContent == CreateDraftFromContentFor(MaxDrafts, Users)

GenerateDraftVersionOf(draft_ids, users) ==
    /\ nextVersion <= MaxVersions
    /\ \E draft_id \in draft_ids, user_id \in users, draft_content \in Contents :
          LET r == generate_draft_version(DRAFT_STORAGE, draft_id, user_id,
                                          draft_content, nextVersion)
          IN  /\ Apply("generate", draft_id, 0, user_id, r, r.ret # None)
              /\ nextVersion' = IF r.ret = None THEN nextVersion ELSE nextVersion + 1
    /\ UNCHANGED nextDraft

GenerateDraftVersion == GenerateDraftVersionOf(DraftIds, Users)

ApproveDraftVersionOf(draft_ids, users) ==
    /\ \E draft_id \in draft_ids, version_id \in VersionIds, user_id \in users,
          feedback \in Feedbacks :
          LET r == approve_draft_version(DRAFT_STORAGE, draft_id, version_id, user_id,
                                         feedback)
          IN  Apply("approve", draft_id, version_id, user_id, r, r.ret)
    /\ UNCHANGED <<nextDraft, nextVersion>>

ApproveDraftVersion == ApproveDraftVersionOf(DraftIds, Users)

RejectDraftVersion ==
    /\ \E draft_id \in DraftIds, version_id \in VersionIds, user_id \in Users,
          reason \in Reasons, feedback \in Feedbacks :
          LET r == reject_draft_version(DRAFT_STORAGE, draft_id, version_id, user_id,
                                        reason, feedback)
          IN  Apply("reject", draft_id, version_id, user_id, r, r.ret)
    /\ UNCHANGED <<nextDraft, nextVersion>>

ModifyDraftVersion ==
    /\ \E draft_id \in DraftIds, version_id \in VersionIds, user_id \in Users,
          modifications \in ModificationMaps :
          LET r == modify_draft_version(DRAFT_STORAGE, draft_id, version_id, user_id,
                                        modifications)
          IN  Apply("modify", draft_id, version_id, user_id, r, r.ret)
    /\ UNCHANGED <<nextDraft, nextVersion>>

RegenerateDraftVersion ==
    /\ nextVersion <= MaxVersions
    /\ \E draft_id \in DraftIds, version_id \in VersionIds, user_id \in Users,
          feedback \in Feedbacks, draft_content \in Contents :
          LET r == regenerate_draft_version(DRAFT_STORAGE, draft_id, version_id, user_id,
                                            feedback, draft_content, nextVersion)
          IN  /\ Apply("regenerate", draft_id, version_id, user_id, r, r.ret # None)
              /\ nextVersion' = IF r.ret = None THEN nextVersion ELSE nextVersion + 1
    /\ UNCHANGED nextDraft

GetDraftComparison ==
    /\ \E draft_id \in DraftIds, v1 \in VersionIds, v2 \in VersionIds, user_id \in Users :
          LET r == get_draft_comparison(DRAFT_STORAGE, draft_id, v1, v2, user_id)
          IN  Apply("compare", draft_id, v1, user_id, r, r.ret # None)
    /\ UNCHANGED <<nextDraft, nextVersion>>

ExportDraft ==
    /\ \E draft_id \in DraftIds, user_id \in Users, format \in Formats :
          LET r == export_draft(DRAFT_STORAGE, draft_id, user_id, format)
          IN  Apply("export", draft_id, 0, user_id, r, r.ret # None)
    /\ UNCHANGED <<nextDraft, nextVersion>>

DeleteDraft ==
    /\ \E draft_id \in DraftIds, user_id \in Users :
          LET r == delete_draft(DRAFT_STORAGE, draft_id, user_id)
          IN  Apply("delete", draft_id, 0, user_id, r, r.ret)
    /\ UNCHANGED <<nextDraft, nextVersion>>

\* GET /drafting/{draft_id}: the endpoint calls the service's get_draft, which takes no
\* user, and answers the requester
GetDraft ==
    /\ \E draft_id \in DraftIds, user_id \in Users :
          lastCall' = Call("get_draft", draft_id, 0, user_id,
                           get_draft(DRAFT_STORAGE, draft_id) # None,
                           endpoint_get_draft(DRAFT_STORAGE, draft_id, user_id).http)
    /\ UNCHANGED <<formVars, DRAFT_STORAGE, WORKFLOW_STORAGE, workflowCreator, nextDraft, nextVersion,
                   nextWorkflow, executorVars>>

\* create_workflow_from_chat for one of these users, on a chat analysed as one of these
CreateWorkflowFromChatUpTo(max_workflows, users, analyses) ==
    /\ nextWorkflow <= max_workflows
    /\ \E user_id \in users, analysis_result \in analyses :
          LET r == create_workflow_from_chat(WORKFLOW_STORAGE, nextWorkflow, user_id,
                                             "chat", analysis_result)
          IN  /\ WORKFLOW_STORAGE' = r.storage
              /\ workflowCreator' = SetItem(workflowCreator, nextWorkflow, user_id)
              /\ lastCall' = WorkflowCall("create_workflow_from_chat", nextWorkflow,
                                          user_id, TRUE, 0)
    /\ nextWorkflow' = nextWorkflow + 1
    /\ UNCHANGED <<formVars, DRAFT_STORAGE, nextDraft, nextVersion, executorVars>>

CreateWorkflowFromChatFor(users, analyses) ==
    CreateWorkflowFromChatUpTo(MaxWorkflows, users, analyses)

CreateWorkflowFromChat == CreateWorkflowFromChatFor(Users, WorkflowAnalyses)

CreateDraftFromWorkflow ==
    /\ nextDraft <= MaxDrafts
    /\ \E workflow_id \in WorkflowIds, user_id \in Users, analysis \in Analyses :
          LET r == create_draft_from_workflow(DRAFT_STORAGE, WORKFLOW_STORAGE, nextDraft,
                                              workflow_id, user_id, analysis)
          IN  /\ DRAFT_STORAGE' = r.drafts
              /\ WORKFLOW_STORAGE' = r.workflows
              /\ nextDraft' = IF r.ret # None THEN nextDraft + 1 ELSE nextDraft
              /\ lastCall' = WorkflowCall("create_draft_from_workflow", workflow_id,
                                          user_id, r.ret # None, 0)
    /\ UNCHANGED <<formVars, workflowCreator, nextVersion, nextWorkflow, executorVars>>

\* GET /workflows/{workflow_id}, on the service's get_workflow
GetWorkflow ==
    /\ \E workflow_id \in WorkflowIds, user_id \in Users :
          lastCall' = WorkflowCall("get_workflow", workflow_id, user_id,
                           get_workflow(WORKFLOW_STORAGE, workflow_id) # None,
                           endpoint_get_workflow(WORKFLOW_STORAGE, workflow_id, user_id).http)
    /\ UNCHANGED <<formVars, DRAFT_STORAGE, WORKFLOW_STORAGE, workflowCreator, nextDraft, nextVersion,
                   nextWorkflow, executorVars>>

\* For a workflow operation lastCall tells the operation ("start", "pause", "resume",
\* "stop", "approve_step", or "execute" for a task of the event loop), whether it
\* returned a workflow, the stored status of the workflow before it ("no_workflow" when
\* absent) and, in draft_was, the stored status of the workflow's current step before it.
ExecutionCall(op, workflow_id, ok) ==
    [op |-> op, ok |-> ok, http |-> 0,
     was |-> IF workflow_id \in DOMAIN WORKFLOW_STORAGE
             THEN WORKFLOW_STORAGE[workflow_id].status ELSE "no_workflow",
     draft_was |-> IF /\ workflow_id \in DOMAIN WORKFLOW_STORAGE
                      /\ WORKFLOW_STORAGE[workflow_id].currentStep
                            < Len(WORKFLOW_STORAGE[workflow_id].steps)
                   THEN LET w == WORKFLOW_STORAGE[workflow_id]
                        IN  w.steps[w.currentStep + 1].status
                   ELSE "absent"]

\* the chat shows document intent and names parties, terms and legal requirements:
\* Information Gathering, Document Generation, Review & Validation, Final Approval
CompleteAnalysis ==
    [has_document_intent |-> TRUE, parties_involved |-> TRUE, key_terms |-> TRUE,
     legal_requirements |-> TRUE]

CreateDocumentWorkflow == CreateWorkflowFromChatFor({"u1"}, {CompleteAnalysis})

\* the chat shows no document intent: Research, Extraction, Drafting, Validation, Review
NoIntentAnalysis ==
    [has_document_intent |-> FALSE, parties_involved |-> FALSE, key_terms |-> FALSE,
     legal_requirements |-> FALSE]

CreateGenericWorkflow == CreateWorkflowFromChatFor({"u1"}, {NoIntentAnalysis})

\* resumed follows the last resume of a paused workflow: "clean" until a pause, a stop
\* or a raising handler comes after it
ControlWorkflowOf(workflow_ids, actions) ==
    /\ \E workflow_id \in workflow_ids, action \in actions :
          LET r == control_workflow(WORKFLOW_STORAGE, workflow_id, action)
              call == ExecutionCall(action, workflow_id, r.ret # None)
          IN  /\ created + Len(r.tasks) <= MaxTasks
              /\ WORKFLOW_STORAGE' = r.storage
              /\ ready' = ready \o r.tasks
              /\ created' = created + Len(r.tasks)
              /\ resumed' = IF action = "resume" /\ call.was = "paused" THEN "clean"
                            ELSE IF action \in {"pause", "stop"} /\ call.ok /\ resumed = "clean"
                            THEN "spoiled"
                            ELSE resumed
              /\ lastCall' = call
    /\ UNCHANGED <<formVars, DRAFT_STORAGE, workflowCreator, nextDraft, nextVersion, nextWorkflow,
                   sleeping, executed, approvedSteps>>

ControlWorkflow == ControlWorkflowOf(WorkflowIds, ControlActions)

\* control(start) on a workflow that was not started before
StartWorkflow ==
    ControlWorkflowOf({w \in DOMAIN WORKFLOW_STORAGE : WORKFLOW_STORAGE[w].status = "idle"},
                      {"start"})

ApproveStep ==
    /\ \E workflow_id \in WorkflowIds, step_id \in StepIds :
          LET r == approve_step(WORKFLOW_STORAGE, workflow_id, step_id)
          IN  /\ created + Len(r.tasks) <= MaxTasks
              /\ WORKFLOW_STORAGE' = r.storage
              /\ ready' = ready \o r.tasks
              /\ created' = created + Len(r.tasks)
              /\ approvedSteps' = IF r.tasks # <<>>
                                  THEN approvedSteps \cup {step_id - 1}
                                  ELSE approvedSteps
              /\ lastCall' = ExecutionCall("approve_step", workflow_id, r.ret # None)
    /\ UNCHANGED <<formVars, DRAFT_STORAGE, workflowCreator, nextDraft, nextVersion, nextWorkflow,
                   sleeping, executed, resumed>>

ModifyStepOf(step_ids, modifications) ==
    /\ \E workflow_id \in WorkflowIds, step_id \in step_ids, m \in modifications :
          LET r == modify_step(WORKFLOW_STORAGE, workflow_id, step_id, m)
          IN  /\ WORKFLOW_STORAGE' = r.storage
              /\ lastCall' = ExecutionCall("modify_step", workflow_id, r.ret # None)
    /\ UNCHANGED <<formVars, DRAFT_STORAGE, workflowCreator, nextDraft, nextVersion, nextWorkflow,
                   executorVars>>

ModifyStep == ModifyStepOf(StepIds, StepModifications)

\* a note added to the first step
ModifyFirstStep == ModifyStepOf({1}, {[note |-> "m"]})

\* the event loop runs a task: the first of the ready queue, or the first of the timer
\* queue when its second of sleep is over
Executes(task, raises, ready_after, sleeping_after) ==
    LET r == RunTask(WORKFLOW_STORAGE, task, raises)
    IN  /\ WORKFLOW_STORAGE' = r.storage
        /\ ready' = ready_after
        /\ sleeping' = sleeping_after \o r.sleeps
        /\ executed' = executed \o r.ran
        /\ resumed' = IF raises /\ r.ran # <<>> /\ resumed = "clean" THEN "spoiled"
                      ELSE resumed
        /\ lastCall' = ExecutionCall("execute", task.workflow.id, TRUE)
        /\ UNCHANGED <<formVars, DRAFT_STORAGE, workflowCreator, nextDraft, nextVersion,
                       nextWorkflow, approvedSteps, created>>

\* raising tells whether the handlers of the steps may raise
RunReadyTaskWhen(raising) ==
    /\ ready # <<>>
    /\ \E raises \in raising : Executes(Head(ready), raises, Tail(ready), sleeping)

RunReadyTask == RunReadyTaskWhen(BOOLEAN)

WakeSleepingTaskWhen(raising) ==
    /\ sleeping # <<>>
    /\ \E raises \in raising : Executes(Head(sleeping), raises, ready, Tail(sleeping))

WakeSleepingTask == WakeSleepingTaskWhen(BOOLEAN)

Init ==
    /\ DRAFT_STORAGE = [d \in {} |-> 0]
    /\ WORKFLOW_STORAGE = [w \in {} |-> 0]
    /\ workflowCreator = [w \in {} |-> "None"]
    /\ nextDraft = 1
    /\ nextVersion = 1
    /\ nextWorkflow = 1
    /\ lastCall = [op |-> "init", ok |-> TRUE, http |-> 0, was |-> "no_draft",
                   draft_was |-> "absent"]
    /\ ready = <<>>
    /\ sleeping = <<>>
    /\ executed = <<>>
    /\ approvedSteps = {}
    /\ resumed = "no"
    /\ created = 0
    /\ conversation = {}
    /\ schemas = [t \in {} |-> 0]
    /\ schema = <<>>
    /\ form = <<>>

\* the draft lifecycle
Next ==
    \/ CreateDraftFromChat
    \/ CreateDraftFromContent
    \/ GenerateDraftVersion
    \/ ApproveDraftVersion
    \/ RejectDraftVersion
    \/ ModifyDraftVersion
    \/ RegenerateDraftVersion
    \/ GetDraftComparison
    \/ ExportDraft
    \/ DeleteDraft

Spec == Init /\ [][Next]_vars

\* reading both aggregate stores through the API
NextAccess ==
    \/ CreateDraftFromChat
    \/ CreateDraftFromContent
    \/ GenerateDraftVersion
    \/ DeleteDraft
    \/ GetDraft
    \/ CreateWorkflowFromChat
    \/ GetWorkflow

SpecAccess == Init /\ [][NextAccess]_vars

\* drafts created from chats and from workflows
NextLink ==
    \/ CreateDraftFromChat
    \/ GenerateDraftVersion
    \/ CreateWorkflowFromChat
    \/ CreateDraftFromWorkflow
    \/ GetWorkflow
    \/ GetDraft

SpecLink == Init /\ [][NextLink]_vars

\* one workflow under control, approval and execution
NextWorkflow ==
    \/ CreateDocumentWorkflow
    \/ ControlWorkflow
    \/ ApproveStep
    \/ RunReadyTask
    \/ WakeSleepingTask

SpecWorkflow == Init /\ [][NextWorkflow]_vars

\* one workflow started once, then approved step by step while it executes
NextApproval ==
    \/ CreateDocumentWorkflow
    \/ StartWorkflow
    \/ ApproveStep
    \/ RunReadyTask
    \/ WakeSleepingTask

SpecApproval == Init /\ [][NextApproval]_vars

\* the generic workflow started once and executed, its steps modified on the way
NextModify ==
    \/ CreateGenericWorkflow
    \/ StartWorkflow
    \/ ModifyStep
    \/ RunReadyTask
    \/ WakeSleepingTask

SpecModify == Init /\ [][NextModify]_vars

\* two drafts and two workflows of one user side by side, the workflows each started
\* once and executed
AggregateIds == 1..MaxAggregates

NextAggregates ==
    \/ CreateDraftFromContentFor(MaxAggregates, {"u1"})
    \/ GenerateDraftVersionOf(AggregateIds, {"u1"})
    \/ ApproveDraftVersionOf(AggregateIds, {"u1"})
    \/ CreateWorkflowFromChatUpTo(MaxAggregates, {"u1"}, {CompleteAnalysis})
    \/ StartWorkflow
    \/ RunReadyTask
    \/ WakeSleepingTask

SpecAggregates == Init /\ [][NextAggregates]_vars

\* one workflow started once and approved step by step, with handlers that never raise;
\* the event loop runs every task that is ready and wakes every task whose sleep is over
NextCompletion ==
    \/ CreateDocumentWorkflow
    \/ StartWorkflow
    \/ ApproveStep
    \/ RunReadyTaskWhen({FALSE})
    \/ WakeSleepingTaskWhen({FALSE})

SpecCompletion ==
    /\ Init
    /\ [][NextCompletion]_vars
    /\ WF_vars(RunReadyTaskWhen({FALSE}))
    /\ WF_vars(WakeSleepingTaskWhen({FALSE}))

\* every operation that writes a workflow, interleaved with its executors
NextSteps ==
    \/ CreateDocumentWorkflow
    \/ ControlWorkflow
    \/ ApproveStep
    \/ ModifyFirstStep
    \/ RunReadyTask
    \/ WakeSleepingTask

SpecSteps == Init /\ [][NextSteps]_vars

\* ------------------------------------------------------- schema and form actions
\* schemas saved by DynamicSchemaLoader.save_schema in a run
MaxSavedSchemas == 1

SchemaCall(op) == [op |-> op, ok |-> TRUE, http |-> 0, was |-> "no_draft", draft_was |-> "absent"]

\* a new conversation text arrives; nothing was returned for it yet
NewConversation ==
    /\ \E text \in Conversations : conversation' = text
    /\ schema' = None
    /\ form' = None
    /\ lastCall' = SchemaCall("conversation")
    /\ UNCHANGED <<serviceVars, schemas>>

CreateDynamicSchema ==
    /\ schema' = Some(create_dynamic_schema(_detect_document_type(conversation), conversation))
    /\ lastCall' = SchemaCall("create_dynamic_schema")
    /\ UNCHANGED <<serviceVars, conversation, schemas, form>>

\* save_schema(document_type, schema) with a schema made for any text; load_all_schemas
\* then reads it back into self.schemas
SaveSchema ==
    /\ Cardinality(DOMAIN schemas) < MaxSavedSchemas
    /\ \E document_type \in DocumentTypeNames, text \in Conversations :
          schemas' = SetItem(schemas, document_type, create_dynamic_schema(document_type, text))
    /\ lastCall' = SchemaCall("save_schema")
    /\ UNCHANGED <<serviceVars, conversation, schema, form>>

GenerateFormFromConversation ==
    /\ form' = Some(generate_form_from_conversation(conversation))
    /\ lastCall' = SchemaCall("generate_form_from_conversation")
    /\ UNCHANGED <<serviceVars, conversation, schemas, schema>>

UpdateFormWithUserInput ==
    /\ form # None
    /\ \E user_input \in UserInputs :
          form' = Some(update_form_with_user_input(form[1], user_input))
    /\ lastCall' = SchemaCall("update_form_with_user_input")
    /\ UNCHANGED <<serviceVars, conversation, schemas, schema>>

\* generate_form of the agent's form generator; lastCall keeps its inputs
GenerateForm ==
    /\ \E form_structure \in BaseFormStructures, requirements \in FormRequirements,
          additional_fields \in AdditionalFields :
          /\ form' = Some(generate_form("contract", form_structure, requirements,
                                        additional_fields))
          /\ lastCall' = [op |-> "generate_form", ok |-> TRUE, http |-> 0,
                          was |-> "no_draft", draft_was |-> "absent",
                          form_structure |-> form_structure,
                          requirements |-> requirements,
                          additional_fields |-> additional_fields]
    /\ UNCHANGED <<serviceVars, conversation, schemas, schema>>

\* analyze_conversation on some messages with some behaviour of its collaborators;
\* lastCall keeps the run and what was returned
AnalyzeConversation ==
    /\ \E run \in AnalyzerRuns :
          lastCall' = [op |-> "analyze_conversation", ok |-> TRUE, http |-> 0,
                       was |-> "no_draft", draft_was |-> "absent",
                       run |-> run, result |-> analyze_conversation(run)]
    /\ UNCHANGED <<serviceVars, formVars>>

\* the conversation analyzer
NextAnalyzer ==
    \/ AnalyzeConversation

SpecAnalyzer == Init /\ [][NextAnalyzer]_vars

\* _detect_intent on some query, with the LLM call it starts with returning or raising
DetectIntent ==
    /\ \E user_query \in Queries, llm \in LlmOutcomes :
          lastCall' = [op |-> "_detect_intent", ok |-> TRUE, http |-> 0,
                       was |-> "no_draft", draft_was |-> "absent",
                       user_query |-> user_query, llm |-> llm,
                       result |-> _detect_intent(user_query, llm)]
    /\ UNCHANGED <<serviceVars, formVars>>

\* the intent classifier
NextIntent ==
    \/ DetectIntent

SpecIntent == Init /\ [][NextIntent]_vars

\* _parse_chat_content on some content
ParseChatContent ==
    /\ \E chat_content \in ChatContents :
          lastCall' = [op |-> "_parse_chat_content", ok |-> TRUE, http |-> 0,
                       was |-> "no_draft", draft_was |-> "absent",
                       chat_content |-> chat_content,
                       messages |-> _parse_chat_content(chat_content)]
    /\ UNCHANGED <<serviceVars, formVars>>

\* the chat content parser
NextParse ==
    \/ ParseChatContent

SpecParse == Init /\ [][NextParse]_vars

\* schema inference
NextSchema ==
    \/ NewConversation
    \/ CreateDynamicSchema
    \/ SaveSchema

SpecSchema == Init /\ [][NextSchema]_vars

\* the agent's form generator
NextAgentForm ==
    \/ GenerateForm

SpecAgentForm == Init /\ [][NextAgentForm]_vars

\* form generation and the user's answers
NextForm ==
    \/ NewConversation
    \/ GenerateFormFromConversation
    \/ UpdateFormWithUserInput

SpecForm == Init /\ [][NextForm]_vars

\* ------------------------------------------------------- claims
\* the stored versions of a stored draft, and the draft's owner
VersionsOf(d) == DRAFT_STORAGE[d].versions
OwnerOf(d) == DRAFT_STORAGE[d].userId
Unchanged(r) == r.storage = DRAFT_STORAGE

\* C1: for every stored draft and every version of it whose status is not 'pending',
\* approve_draft_version and reject_draft_version called by the owner return False and
\* leave the store exactly as it was; and no such call was ever reported successful.
C1_NonPendingDecisionRefused ==
    /\ \A d \in DOMAIN DRAFT_STORAGE : \A i \in 1..Len(VersionsOf(d)) :
          VersionsOf(d)[i].status # "pending" =>
             /\ \A feedback \in Feedbacks :
                   LET r == approve_draft_version(DRAFT_STORAGE, d, VersionsOf(d)[i].id,
                                                  OwnerOf(d), feedback)
                   IN  r.ret = FALSE /\ Unchanged(r)
             /\ \A reason \in Reasons, feedback \in Feedbacks :
                   LET r == reject_draft_version(DRAFT_STORAGE, d, VersionsOf(d)[i].id,
                                                 OwnerOf(d), reason, feedback)
                   IN  r.ret = FALSE /\ Unchanged(r)
    /\ (lastCall.op \in {"approve", "reject"}
        /\ lastCall.was \in {"approved", "rejected", "modified"}) => ~lastCall.ok

\* the owner's reject of a modified version has been refused, in a store that also holds
\* an approved version
C1_Witness ==
    /\ lastCall.op = "reject"
    /\ lastCall.was = "modified"
    /\ ~lastCall.ok
    /\ \E d \in DOMAIN DRAFT_STORAGE : \E i \in 1..Len(VersionsOf(d)) :
          VersionsOf(d)[i].status = "approved"

\* C2: approve_draft_version by the owner on a 'pending' version returns True, sets the
\* version to 'approved' with approved_by the caller and the draft to 'completed'; the
\* same call made again right after returns False and changes nothing.
C2_ApproveTwice ==
    \A d \in DOMAIN DRAFT_STORAGE : \A i \in 1..Len(VersionsOf(d)) :
       VersionsOf(d)[i].status = "pending" =>
          \A feedback \in Feedbacks :
             LET id == VersionsOf(d)[i].id
                 r1 == approve_draft_version(DRAFT_STORAGE, d, id, OwnerOf(d), feedback)
                 r2 == approve_draft_version(r1.storage, d, id, OwnerOf(d), feedback)
             IN  /\ r1.ret = TRUE
                 /\ r1.storage[d].versions[i].status = "approved"
                 /\ r1.storage[d].versions[i].approvedBy = OwnerOf(d)
                 /\ r1.storage[d].status = "completed"
                 /\ r2.ret = FALSE
                 /\ r2.storage = r1.storage

\* the owner's approve of an already approved version has been refused
C2_Witness ==
    /\ lastCall.op = "approve"
    /\ lastCall.was = "approved"
    /\ lastCall.draft_was = "completed"
    /\ ~lastCall.ok

\* C3: reject_draft_version by the owner on a 'pending' version returns True, sets the
\* version to 'rejected' with the given reason and the draft to 'in_progress', whatever
\* the draft's status was (also 'completed').
C3_RejectReopensDraft ==
    /\ \A d \in DOMAIN DRAFT_STORAGE : \A i \in 1..Len(VersionsOf(d)) :
          VersionsOf(d)[i].status = "pending" =>
             \A reason \in Reasons, feedback \in Feedbacks :
                LET r == reject_draft_version(DRAFT_STORAGE, d, VersionsOf(d)[i].id,
                                              OwnerOf(d), reason, feedback)
                IN  /\ r.ret = TRUE
                    /\ r.storage[d].versions[i].status = "rejected"
                    /\ r.storage[d].versions[i].rejectedReason = reason
                    /\ r.storage[d].status = "in_progress"
    /\ (lastCall.op = "reject" /\ lastCall.ok) =>
          \E d \in DOMAIN DRAFT_STORAGE : DRAFT_STORAGE[d].status = "in_progress"

\* a pending version of a completed draft has been rejected
C3_Witness ==
    /\ lastCall.op = "reject"
    /\ lastCall.ok
    /\ lastCall.was = "pending"
    /\ lastCall.draft_was = "completed"
    /\ \E d \in DOMAIN DRAFT_STORAGE :
          /\ DRAFT_STORAGE[d].status = "in_progress"
          /\ \E i \in 1..Len(VersionsOf(d)) : VersionsOf(d)[i].status = "approved"

\* C4: generate_draft_version by the owner appends exactly one new 'pending' version at
\* the end of the version list, leaves the versions that were there and their order
\* unchanged, and leaves currentVersion equal to the number of versions.
C4_GenerateAppendsPending ==
    \A d \in DOMAIN DRAFT_STORAGE : \A draft_content \in Contents :
       LET r == generate_draft_version(DRAFT_STORAGE, d, OwnerOf(d), draft_content,
                                       nextVersion)
           after == r.storage[d].versions
           n == Len(VersionsOf(d))
       IN  /\ r.ret # None
           /\ Len(after) = n + 1
           /\ \A i \in 1..n : after[i] = VersionsOf(d)[i]
           /\ after[n + 1].status = "pending"
           /\ after[n + 1].id = nextVersion
           /\ after[n + 1] = DraftVersion_to_dict(r.ret[1])
           /\ r.storage[d].currentVersion = n + 1
           /\ r.storage[d].totalVersions = n + 1

\* a version has been generated after an earlier one that was decided in between
C4_Witness ==
    /\ lastCall.op = "generate"
    /\ lastCall.ok
    /\ \E d \in DOMAIN DRAFT_STORAGE :
          /\ Len(VersionsOf(d)) = 2
          /\ VersionsOf(d)[1].status = "rejected"
          /\ VersionsOf(d)[2].status = "pending"
          /\ DRAFT_STORAGE[d].currentVersion = 2

\* C5: every draft loaded from the store by get_draft, a freshly created one included,
\* has current_version = len(versions), and a draft without versions is 'in_progress'.
C5_CurrentVersionCountsVersions ==
    \A d \in DOMAIN DRAFT_STORAGE :
       LET draft == get_draft(DRAFT_STORAGE, d)[1]
       IN  /\ draft.current_version = Len(draft.versions)
           /\ Len(draft.versions) = 0 => draft.status = "in_progress"

\* the failure value of each draft operation that takes a user_id
FailureOf(op) == IF op \in {"approve", "reject", "modify", "delete"} THEN Some(FALSE) ELSE None

\* what each draft operation returns and stores when it is called on draft d by user_id,
\* for every choice of its other arguments: a set of [op, ret, storage] outcomes, with
\* ret wrapped (Some(False)) where it is a boolean
OutcomesOf(storage, d, user_id) ==
    {[op |-> "generate", ret |-> r.ret, storage |-> r.storage] :
        r \in {generate_draft_version(storage, d, user_id, c, nextVersion) : c \in Contents}}
    \cup
    {[op |-> "approve", ret |-> Some(r.ret), storage |-> r.storage] :
        r \in {approve_draft_version(storage, d, x[1], user_id, x[2]) :
                 x \in VersionIds \X Feedbacks}}
    \cup
    {[op |-> "reject", ret |-> Some(r.ret), storage |-> r.storage] :
        r \in {reject_draft_version(storage, d, x[1], user_id, x[2], x[3]) :
                 x \in VersionIds \X Reasons \X Feedbacks}}
    \cup
    {[op |-> "modify", ret |-> Some(r.ret), storage |-> r.storage] :
        r \in {modify_draft_version(storage, d, x[1], user_id, x[2]) :
                 x \in VersionIds \X ModificationMaps}}
    \cup
    {[op |-> "regenerate", ret |-> r.ret, storage |-> r.storage] :
        r \in {regenerate_draft_version(storage, d, x[1], user_id, x[2], x[3], nextVersion) :
                 x \in VersionIds \X Feedbacks \X Contents}}
    \cup
    {[op |-> "compare", ret |-> r.ret, storage |-> r.storage] :
        r \in {get_draft_comparison(storage, d, x[1], x[2], user_id) :
                 x \in VersionIds \X VersionIds}}
    \cup
    {[op |-> "export", ret |-> r.ret, storage |-> r.storage] :
        r \in {export_draft(storage, d, user_id, f) : f \in Formats}}
    \cup
    {[op |-> "delete", ret |-> Some(r.ret), storage |-> r.storage] :
        r \in {delete_draft(storage, d, user_id)}}

DraftOps == {"generate", "approve", "reject", "modify", "regenerate", "compare", "export",
             "delete"}

\* C6: every draft operation that takes a user_id, called by a user who is not the
\* draft's owner, returns what the same call returns when the draft id is not in the
\* store (None or False) and leaves the store unchanged.
C6_ForeignDraftLooksAbsent ==
    /\ \A d \in DOMAIN DRAFT_STORAGE : \A user_id \in Users \ {OwnerOf(d)} :
          LET foreign == OutcomesOf(DRAFT_STORAGE, d, user_id)
              absent == OutcomesOf(DelItem(DRAFT_STORAGE, d), d, user_id)
          IN  /\ \A o \in foreign : o.ret = FailureOf(o.op) /\ o.storage = DRAFT_STORAGE
              /\ {<<o.op, o.ret>> : o \in foreign} = {<<o.op, o.ret>> : o \in absent}
              /\ {o.op : o \in foreign} = DraftOps
    /\ (lastCall.op \in DraftOps /\ lastCall.was \in {"foreign", "no_draft"}) => ~lastCall.ok

\* a user who is not the owner has called modify on a stored draft with a version
C6_Witness ==
    /\ lastCall.op = "modify"
    /\ lastCall.was = "foreign"
    /\ ~lastCall.ok
    /\ \E d \in DOMAIN DRAFT_STORAGE : Len(VersionsOf(d)) > 0

\* C7: get_draft and get_workflow answer 'not found' for an id that belongs to another
\* user than the requester: the call made for the requester returns no object (None).
C7_ForeignGetIsNotFound ==
    (lastCall.op \in {"get_draft", "get_workflow"} /\ lastCall.was = "foreign") =>
        ~lastCall.ok

\* C8: once a version is 'approved' or 'rejected', no draft operation changes its status.
C8_DecidedVersionKeepsStatus ==
    [][\A d \in DOMAIN DRAFT_STORAGE \cap DOMAIN DRAFT_STORAGE' :
          \A i \in 1..Len(VersionsOf(d)) :
             VersionsOf(d)[i].status \in {"approved", "rejected"} =>
                /\ i <= Len(DRAFT_STORAGE'[d].versions)
                /\ DRAFT_STORAGE'[d].versions[i].status = VersionsOf(d)[i].status]_vars

\* C9: modify_draft_version by the owner on an existing version of any status returns
\* True, merges the modification map into the version's modifications (its keys take the
\* given values, the other keys keep theirs), sets the version's status to 'modified', and
\* leaves the draft's status, currentVersion and every other version unchanged.
C9_ModifyMergesAndFrames ==
    \A d \in DOMAIN DRAFT_STORAGE : \A i \in 1..Len(VersionsOf(d)) :
       \A modifications \in ModificationMaps :
          LET before == VersionsOf(d)[i]
              r == modify_draft_version(DRAFT_STORAGE, d, before.id, OwnerOf(d),
                                        modifications)
              after == r.storage[d].versions
          IN  /\ r.ret = TRUE
              /\ DOMAIN after[i].modifications
                    = DOMAIN before.modifications \cup DOMAIN modifications
              /\ \A k \in DOMAIN modifications : after[i].modifications[k] = modifications[k]
              /\ \A k \in DOMAIN before.modifications \ DOMAIN modifications :
                    after[i].modifications[k] = before.modifications[k]
              /\ after[i].status = "modified"
              /\ r.storage[d].status = DRAFT_STORAGE[d].status
              /\ r.storage[d].currentVersion = DRAFT_STORAGE[d].currentVersion
              /\ Len(after) = Len(VersionsOf(d))
              /\ \A j \in 1..Len(after) : j # i => after[j] = VersionsOf(d)[j]
              /\ DOMAIN r.storage = DOMAIN DRAFT_STORAGE

\* an approved version has been modified and a version holds two merged modifications
C9_Witness ==
    /\ lastCall.op = "modify"
    /\ lastCall.ok
    /\ lastCall.was = "approved"
    /\ \E d \in DOMAIN DRAFT_STORAGE : \E i \in 1..Len(VersionsOf(d)) :
          /\ VersionsOf(d)[i].status = "modified"
          /\ VersionsOf(d)[i].approvedBy # "None"
          /\ DOMAIN VersionsOf(d)[i].modifications = ModKeys
          /\ DRAFT_STORAGE[d].status = "completed"

\* C10: regenerate_draft_version by the owner leaves the referenced version as it was
\* (status, content, rejection reason, modifications, and the rest) and appends a new
\* 'pending' version after all the versions that were there.
C10_RegenerateAppends ==
    \A d \in DOMAIN DRAFT_STORAGE : \A version_id \in VersionIds :
       \A feedback \in Feedbacks, draft_content \in Contents :
          LET r == regenerate_draft_version(DRAFT_STORAGE, d, version_id, OwnerOf(d),
                                            feedback, draft_content, nextVersion)
              after == r.storage[d].versions
              n == Len(VersionsOf(d))
          IN  /\ r.ret # None
              /\ Len(after) = n + 1
              /\ \A i \in 1..n : after[i] = VersionsOf(d)[i]
              /\ after[n + 1].status = "pending"
              /\ after[n + 1].id = nextVersion

\* a rejected version with modifications has been regenerated: it is still there,
\* followed by the new pending version
C10_Witness ==
    /\ lastCall.op = "regenerate"
    /\ lastCall.ok
    /\ lastCall.was = "rejected"
    /\ \E d \in DOMAIN DRAFT_STORAGE :
          /\ Len(VersionsOf(d)) = 2
          /\ VersionsOf(d)[1].status = "rejected"
          /\ VersionsOf(d)[1].rejectedReason \in Reasons
          /\ VersionsOf(d)[2].status = "pending"

\* the formats export_draft serializes
SupportedFormats == {"json", "docx", "pdf", "txt"}

\* C11: export_draft called by the owner in a supported format returns the approved
\* version at the highest position of the version list if some version is approved,
\* otherwise the last version whatever its status; it returns None when the draft has
\* no versions; the store is left as it was.
C11_ExportPicksLatestApproved ==
    \A d \in DOMAIN DRAFT_STORAGE : \A format \in Formats :
       LET versions == VersionsOf(d)
           approved == {i \in 1..Len(versions) : versions[i].status = "approved"}
           pick == IF approved # {}
                   THEN CHOOSE i \in approved : \A j \in approved : j <= i
                   ELSE Len(versions)
           r == export_draft(DRAFT_STORAGE, d, OwnerOf(d), format)
       IN  /\ Unchanged(r)
           /\ Len(versions) = 0 => r.ret = None
           /\ (Len(versions) > 0 /\ format \in SupportedFormats) =>
                 r.ret = Some(IF format = "txt"
                              THEN [kind |-> "text", content |-> versions[pick].content]
                              ELSE [kind |-> "json", draft |-> d,
                                    status |-> DRAFT_STORAGE[d].status,
                                    version |-> versions[pick]])

\* the owner has exported a draft whose two versions are both approved
C11_Witness ==
    /\ lastCall.op = "export"
    /\ lastCall.ok
    /\ \E d \in DOMAIN DRAFT_STORAGE :
          /\ Len(VersionsOf(d)) = 2
          /\ \A i \in 1..2 : VersionsOf(d)[i].status = "approved"

\* the draft ids handed out so far that are no longer in the store
DeletedDrafts == (1..(nextDraft - 1)) \ DOMAIN DRAFT_STORAGE

\* C12: delete_draft called by the owner returns True and removes the draft with its
\* versions and nothing else; on an id removed this way get_draft returns None and
\* generate, approve, reject, modify, regenerate, compare, export and delete return
\* their failure value and leave the store unchanged, for every caller, and the id never
\* comes back; delete_draft called by another user returns False, leaves the store
\* unchanged and get_draft still returns the draft.
C12_DeleteRemovesDraft ==
    /\ [](/\ \A d \in DOMAIN DRAFT_STORAGE :
               LET r == delete_draft(DRAFT_STORAGE, d, OwnerOf(d))
               IN  /\ r.ret = TRUE
                   /\ r.storage = DelItem(DRAFT_STORAGE, d)
                   /\ get_draft(r.storage, d) = None
                   /\ \A user_id \in Users : \A o \in OutcomesOf(r.storage, d, user_id) :
                         o.ret = FailureOf(o.op) /\ o.storage = r.storage
          /\ \A d \in DOMAIN DRAFT_STORAGE : \A user_id \in Users \ {OwnerOf(d)} :
               LET r == delete_draft(DRAFT_STORAGE, d, user_id)
               IN  /\ r.ret = FALSE
                   /\ Unchanged(r)
                   /\ get_draft(r.storage, d) = Some(_dict_to_draft(DRAFT_STORAGE[d]))
          /\ \A d \in DeletedDrafts :
               /\ get_draft(DRAFT_STORAGE, d) = None
               /\ \A user_id \in Users : \A o \in OutcomesOf(DRAFT_STORAGE, d, user_id) :
                     o.ret = FailureOf(o.op) /\ Unchanged(o))
    /\ [][\A d \in DeletedDrafts : d \notin DOMAIN DRAFT_STORAGE']_vars

\* the owner has deleted a stored draft
C12_Witness ==
    /\ lastCall.op = "delete"
    /\ lastCall.ok
    /\ lastCall.draft_was # "absent"
    /\ DeletedDrafts # {}

\* what the caller may pass as document_type, and what loading and analysing the
\* transcript may yield
AllDocumentTypes == {"None", "plaint"}
AllAnalyses == {"empty", "raises", "None", "demand_letter"}

StoredWorkflows == DOMAIN WORKFLOW_STORAGE
StepsOf(w) == WORKFLOW_STORAGE[w].steps

\* C14: after control(start), under every interleaving of the executor's tasks with
\* approve_step calls, the steps are executed in index order 0..N-1, each once: the
\* k-th execution is that of step k-1, and a workflow that reached 'completed' has had
\* all its N steps executed.
C14_StepsExecutedInOrderOnce ==
    /\ \A k \in 1..Len(executed) : executed[k] = k - 1
    /\ \A w \in StoredWorkflows :
          WORKFLOW_STORAGE[w].status = "completed" => Len(executed) = Len(StepsOf(w))

\* C15: a step other than the first is executed only after approve_step was called for
\* the step before it.
C15_NextStepWaitsForApproval ==
    \A k \in 1..Len(executed) :
       executed[k] > 0 => (executed[k] - 1) \in approvedSteps

\* the stored workflow w was stopped at its current step
Stopped(w) ==
    LET workflow == WORKFLOW_STORAGE[w] IN
    /\ workflow.status = "error"
    /\ workflow.currentStep < Len(workflow.steps)
    /\ workflow.steps[workflow.currentStep + 1].status = "error"
    /\ workflow.steps[workflow.currentStep + 1].error = "Workflow stopped by user"

\* C16: control(stop) on a workflow whose current step B (not the first, not the last)
\* is 'running' stores status 'error', sets B to 'error' with the message "Workflow
\* stopped by user" and leaves the steps after B 'pending'; and while the stored
\* workflow is stopped in this way the executor's tasks change nothing of it and
\* execute no step.
C16_StopHoldsAgainstExecutor ==
    [][\A w \in StoredWorkflows :
          LET before == WORKFLOW_STORAGE[w]
              after == WORKFLOW_STORAGE'[w]
              B == before.currentStep + 1
          IN  /\ B > 1
              /\ B < Len(before.steps)
              /\ \A i \in (B + 1)..Len(before.steps) : before.steps[i].status = "pending"
              => /\ (lastCall'.op = "stop" /\ before.steps[B].status = "running")
                    => /\ after.status = "error"
                       /\ after.steps[B].status = "error"
                       /\ after.steps[B].error = "Workflow stopped by user"
                       /\ \A i \in (B + 1)..Len(after.steps) :
                             after.steps[i].status = "pending"
                 /\ (Stopped(w) /\ lastCall'.op = "execute")
                    => /\ after = before
                       /\ executed' = executed]_vars

\* C17: no control action moves a workflow whose stored status is 'error' to another
\* status.
C17_ErrorIsTerminal ==
    [][\A w \in StoredWorkflows :
          (WORKFLOW_STORAGE[w].status = "error" /\ lastCall'.op \in ControlActions)
          => WORKFLOW_STORAGE'[w].status = "error"]_vars

\* C18: control(pause) on a running workflow stores status 'paused' and sets the
\* current step to 'paused'; and while the stored status is 'paused', whatever happens
\* other than a control action leaves the stored status 'paused', executes no step and
\* turns no step 'running' or 'completed'.
C18_PauseHoldsAgainstExecutor ==
    [][\A w \in StoredWorkflows :
          LET before == WORKFLOW_STORAGE[w]
              after == WORKFLOW_STORAGE'[w]
          IN  /\ (lastCall'.op = "pause" /\ before.status = "running")
                 => /\ after.status = "paused"
                    /\ after.steps[after.currentStep + 1].status = "paused"
              /\ (before.status = "paused" /\ lastCall'.op \notin ControlActions)
                 => /\ after.status = "paused"
                    /\ executed' = executed
                    /\ \A i \in 1..Len(after.steps) :
                          after.steps[i].status \in {"running", "completed"}
                          => after.steps[i].status = before.steps[i].status]_vars

\* C19: right after control(resume) on a paused workflow the stored status is 'running'
\* and the current step is 'running'; and when no pause, no stop and no raising handler
\* has followed that resume and no task is left to run, the workflow is 'completed'
\* (what is to be executed eventually has been executed when nothing can run any more).
C19_ResumeRunsToCompletion ==
    \A w \in StoredWorkflows :
       LET workflow == WORKFLOW_STORAGE[w] IN
       /\ (lastCall.op = "resume" /\ lastCall.was = "paused")
          => /\ workflow.status = "running"
             /\ workflow.steps[workflow.currentStep + 1].status = "running"
       /\ (resumed = "clean" /\ ready = <<>> /\ sleeping = <<>>)
          => workflow.status = "completed"

\* C20: control(start) on a stored workflow returns and stores it with status 'running',
\* current_step 0 and the first step 'running' with a start time, every other step and
\* every other field as it was, and creates one task, which runs _execute_workflow on
\* the returned workflow from its first step.
C20_StartLaunchesOneExecutor ==
    \A w \in StoredWorkflows :
       LET before == WORKFLOW_STORAGE[w]
           r == control_workflow(WORKFLOW_STORAGE, w, "start")
           after == r.storage[w]
       IN  /\ r.ret = Some(_dict_to_workflow(after))
           /\ DOMAIN r.storage = DOMAIN WORKFLOW_STORAGE
           /\ \A other \in StoredWorkflows \ {w} : r.storage[other] = WORKFLOW_STORAGE[other]
           /\ after = [before EXCEPT !.status = "running", !.currentStep = 0,
                                     !.steps[1].status = "running",
                                     !.steps[1].startTime = Now]
           /\ r.tasks = <<Task("_execute_workflow", r.ret[1], 0)>>

\* start was called on a workflow that had been started before and whose second step
\* was completed
C20_Witness ==
    /\ lastCall.op = "start"
    /\ lastCall.ok
    /\ lastCall.was # "idle"
    /\ \E w \in StoredWorkflows :
          /\ WORKFLOW_STORAGE[w].status = "running"
          /\ WORKFLOW_STORAGE[w].currentStep = 0
          /\ StepsOf(w)[1].status = "running"
          /\ StepsOf(w)[2].status = "completed"
          /\ Len(ready) = 1
          /\ ready[1].coro = "_execute_workflow"

\* C21: approve_step has an effect only for a step that is 'completed' with can_approve
\* true: it then clears can_approve and, if more steps remain, advances current_step by
\* one and marks that step 'running'; for a step that is not completed, is unknown, or
\* has can_approve false, it leaves the stored workflow unchanged and creates no task.
C21_ApproveNeedsOpenGate ==
    \A w \in StoredWorkflows : \A step_id \in StepIds :
       LET before == WORKFLOW_STORAGE[w]
           i == FindStep(before.steps, step_id)
           r == approve_step(WORKFLOW_STORAGE, w, step_id)
           after == r.storage[w]
       IN  IF i # 0 /\ before.steps[i].status = "completed" /\ before.steps[i].canApprove
           THEN /\ ~after.steps[i].canApprove
                /\ IF before.currentStep < Len(before.steps) - 1
                   THEN /\ after.currentStep = before.currentStep + 1
                        /\ after.steps[after.currentStep + 1].status = "running"
                   ELSE after.currentStep = before.currentStep
           ELSE /\ r.storage = WORKFLOW_STORAGE
                /\ r.tasks = <<>>

\* C22: modify_step on a 'completed' step stores the step's result merged with the
\* modifications and can_modify false; on a step that is not 'completed' (or unknown)
\* it leaves the stored workflow as it is; in both cases every step's status,
\* current_step and the workflow status are as before, and no task is created.
C22_ModifyMergesAndClearsGate ==
    \A w \in StoredWorkflows : \A step_id \in StepIds, m \in StepModifications :
       LET before == WORKFLOW_STORAGE[w]
           i == FindStep(before.steps, step_id)
           r == modify_step(WORKFLOW_STORAGE, w, step_id, m)
           after == r.storage[w]
       IN  /\ r.tasks = <<>>
           /\ after.status = before.status
           /\ after.currentStep = before.currentStep
           /\ \A j \in 1..Len(before.steps) : after.steps[j].status = before.steps[j].status
           /\ IF i # 0 /\ before.steps[i].status = "completed"
              THEN /\ after.steps[i].result = Some(DictUpdate(before.steps[i].result[1], m))
                   /\ ~after.steps[i].canModify
              ELSE r.storage = WORKFLOW_STORAGE

\* C23: whenever a step becomes 'completed' in the store (its handler finished without
\* raising), it has progress 100 and can_approve true, and can_modify true exactly when it
\* is a Drafting step; this holds for every handler the step may be dispatched to.
C23_CompletedStepOpensGates ==
    [][\A w \in StoredWorkflows : \A i \in 1..Len(StepsOf(w)) :
          LET before == WORKFLOW_STORAGE[w].steps[i]
              after == WORKFLOW_STORAGE'[w].steps[i]
          IN  before.status # "completed" /\ after.status = "completed"
              => /\ after.progress = 100
                 /\ after.canApprove
                 /\ after.canModify <=> (after.name = "Drafting")]_vars

\* C24: when the handler of step i raises, step i is stored with status 'error' and the
\* message, the workflow with status 'error', and that run executes no step after i; and
\* while the stored workflow is in 'error', the executor loop launched by the earlier
\* start executes nothing more when its sleep ends: neither the failed step again nor a
\* later one.
C24_RaiseHaltsTheSequence ==
    [][\A w \in StoredWorkflows :
          LET before == WORKFLOW_STORAGE[w]
              after == WORKFLOW_STORAGE'[w]
          IN  /\ lastCall'.op = "execute" /\ before.status # "error" /\ after.status = "error"
                 => /\ executed' # executed
                    /\ LET i == executed'[Len(executed')]
                       IN  /\ after.steps[i + 1].status = "error"
                           /\ after.steps[i + 1].error # "None"
                           /\ \A j \in (i + 2)..Len(after.steps) :
                                 after.steps[j].status = before.steps[j].status
              /\ before.status = "error" /\ WakeSleepingTask
                 => executed' = executed /\ after.status = "error"]_vars

\* C25: every stored workflow that is 'running' or 'paused' has a current_step that is an
\* index of its step list, 0 <= current_step < len(steps), whatever control, approve_step,
\* modify_step calls and executor steps came before.
C25_CurrentStepInRange ==
    \A w \in StoredWorkflows :
       WORKFLOW_STORAGE[w].status \in {"running", "paused"}
       => /\ 0 <= WORKFLOW_STORAGE[w].currentStep
          /\ WORKFLOW_STORAGE[w].currentStep < Len(StepsOf(w))

\* the last step was approved after the executor reached it, a step was modified, and the
\* workflow is paused at the last index
C25_Witness ==
    \E w \in StoredWorkflows :
       /\ WORKFLOW_STORAGE[w].status = "paused"
       /\ WORKFLOW_STORAGE[w].currentStep = Len(StepsOf(w)) - 1
       /\ (Len(StepsOf(w)) - 1) \in approvedSteps
       /\ StepsOf(w)[1].result # None
       /\ StepsOf(w)[1].result[1] # HandlerResult

\* C26: the steps of one workflow execute strictly one after the other: no stored workflow
\* has two steps in status 'running', and at no time are two execution tasks of the same
\* workflow alive (queued to run or asleep), although start, resume and approve_step each
\* create one.
C26_OneStepAtATime ==
    /\ \A w \in StoredWorkflows :
          Cardinality({i \in 1..Len(StepsOf(w)) : StepsOf(w)[i].status = "running"}) <= 1
    /\ \A w \in WorkflowIds :
          Cardinality({k \in 1..Len(ready) : ready[k].workflow.id = w})
          + Cardinality({k \in 1..Len(sleeping) : sleeping[k].workflow.id = w}) <= 1

\* every analysis result: intent or not, each of the three extracted-info fields present
\* (TRUE) or absent/empty (FALSE)
AllWorkflowAnalyses ==
    [has_document_intent : BOOLEAN, parties_involved : BOOLEAN, key_terms : BOOLEAN,
     legal_requirements : BOOLEAN]

\* C27: create_workflow_from_chat stores an 'idle' workflow with current_step 0 and all
\* steps 'pending', ids step_1..step_k in list order.  With document intent the names are
\* 'Information Gathering', then those of 'Party Information', 'Key Terms Definition',
\* 'Legal Requirements' whose extracted-info field is absent or empty, in that order, then
\* 'Document Generation', 'Review & Validation', 'Final Approval'; without intent they
\* are Research, Extraction, Drafting, Validation, Review.
C27_StepListFollowsAnalysis ==
    \A a \in AllWorkflowAnalyses : \A user_id \in Users :
       LET r == create_workflow_from_chat(WORKFLOW_STORAGE, nextWorkflow, user_id, "c", a)
           stored == r.storage[nextWorkflow]
           names == [i \in 1..Len(stored.steps) |-> stored.steps[i].name]
           Absent(name) == \/ name = "Party Information" /\ ~a.parties_involved
                           \/ name = "Key Terms Definition" /\ ~a.key_terms
                           \/ name = "Legal Requirements" /\ ~a.legal_requirements
       IN  /\ stored.status = "idle"
           /\ stored.currentStep = 0
           /\ \A i \in 1..Len(stored.steps) :
                 stored.steps[i].status = "pending" /\ stored.steps[i].id = i
           /\ names = IF a.has_document_intent
                      THEN <<"Information Gathering">>
                           \o SelectSeq(<<"Party Information", "Key Terms Definition",
                                          "Legal Requirements">>, Absent)
                           \o <<"Document Generation", "Review & Validation",
                                "Final Approval">>
                      ELSE <<"Research", "Extraction", "Drafting", "Validation", "Review">>
           /\ \A w \in StoredWorkflows : r.storage[w] = WORKFLOW_STORAGE[w]

\* a workflow was just created from a chat whose analysis had key terms but neither
\* parties nor legal requirements: six steps, 'Key Terms Definition' left out
C27_Witness ==
    /\ lastCall.op = "create_workflow_from_chat"
    /\ \E w \in StoredWorkflows :
          /\ Len(StepsOf(w)) = 6
          /\ StepsOf(w)[2].name = "Party Information"
          /\ StepsOf(w)[3].name = "Legal Requirements"
          /\ WORKFLOW_STORAGE[w].status = "idle"

\* the entries of a store other than the one of id are as they were
OthersKept(before, after, id) ==
    \A other \in DOMAIN before \ {id} :
       other \in DOMAIN after /\ after[other] = before[other]

\* the draft stores that one operation on draft_id may leave
DraftStoresAfter(draft_id) ==
    {generate_draft_version(DRAFT_STORAGE, draft_id, u, c, nextVersion).storage :
        u \in Users, c \in Contents}
    \cup {approve_draft_version(DRAFT_STORAGE, draft_id, v, u, "fb").storage :
        v \in VersionIds, u \in Users}
    \cup {reject_draft_version(DRAFT_STORAGE, draft_id, v, u, "why", "fb").storage :
        v \in VersionIds, u \in Users}
    \cup UNION {{modify_draft_version(DRAFT_STORAGE, draft_id, v, u, m).storage :
                    v \in VersionIds, u \in Users} : m \in ModificationMaps}
    \cup {regenerate_draft_version(DRAFT_STORAGE, draft_id, v, u, "fb", "text",
                                   nextVersion).storage : v \in VersionIds, u \in Users}
    \cup {get_draft_comparison(DRAFT_STORAGE, draft_id, v, v2, "u1").storage :
        v \in VersionIds, v2 \in VersionIds}
    \cup {export_draft(DRAFT_STORAGE, draft_id, u, f).storage : u \in Users, f \in Formats}
    \cup {delete_draft(DRAFT_STORAGE, draft_id, u).storage : u \in Users}
    \cup {create_draft_from_chat(DRAFT_STORAGE, draft_id, "u1", "chat", "None", a).storage :
        a \in Analyses}
    \cup {create_draft_from_content(DRAFT_STORAGE, draft_id, "u1", "user: hello", "None",
                                    a).storage : a \in Analyses}

\* the workflow stores that one service call on workflow_id may leave
WorkflowStoresAfter(workflow_id) ==
    {control_workflow(WORKFLOW_STORAGE, workflow_id, a).storage : a \in ControlActions}
    \cup {approve_step(WORKFLOW_STORAGE, workflow_id, s).storage : s \in StepIds}
    \cup UNION {{modify_step(WORKFLOW_STORAGE, workflow_id, s, m).storage : s \in StepIds} :
                   m \in StepModifications}
    \cup {create_workflow_from_chat(WORKFLOW_STORAGE, workflow_id, "u1", "chat", a).storage :
        a \in WorkflowAnalyses}

\* the tasks of the event loop
AliveTasks == {ready[k] : k \in 1..Len(ready)} \cup {sleeping[k] : k \in 1..Len(sleeping)}

ChangedDrafts ==
    {d \in DOMAIN DRAFT_STORAGE \cup DOMAIN DRAFT_STORAGE' :
        \/ d \notin DOMAIN DRAFT_STORAGE
        \/ d \notin DOMAIN DRAFT_STORAGE'
        \/ DRAFT_STORAGE'[d] # DRAFT_STORAGE[d]}

ChangedWorkflows ==
    {w \in DOMAIN WORKFLOW_STORAGE \cup DOMAIN WORKFLOW_STORAGE' :
        \/ w \notin DOMAIN WORKFLOW_STORAGE
        \/ w \notin DOMAIN WORKFLOW_STORAGE'
        \/ WORKFLOW_STORAGE'[w] # WORKFLOW_STORAGE[w]}

\* C28: operations on one aggregate never affect another.  At every store reached with
\* two drafts and two workflows whose executors interleave, each draft operation on a
\* draft id leaves every other stored draft as it was, each workflow operation and each
\* run of an alive executor task leaves every other stored workflow as it was; and every
\* step taken changes at most one draft or one workflow.
C28_OtherAggregatesUntouched ==
    /\ [](/\ \A d \in AggregateIds : \A s \in DraftStoresAfter(d) :
                OthersKept(DRAFT_STORAGE, s, d)
          /\ \A w \in AggregateIds : \A s \in WorkflowStoresAfter(w) :
                OthersKept(WORKFLOW_STORAGE, s, w)
          /\ \A task \in AliveTasks : \A raises \in BOOLEAN :
                OthersKept(WORKFLOW_STORAGE, RunTask(WORKFLOW_STORAGE, task, raises).storage,
                           task.workflow.id))
    /\ [][Cardinality(ChangedDrafts) + Cardinality(ChangedWorkflows) <= 1]_vars

\* two drafts with a version each, two workflows whose executors have both executed a step
\* and are both still alive, and the last step taken was an executor's
C28_Witness ==
    /\ DOMAIN DRAFT_STORAGE = AggregateIds
    /\ \A d \in AggregateIds : Len(DRAFT_STORAGE[d].versions) > 0
    /\ DOMAIN WORKFLOW_STORAGE = AggregateIds
    /\ \A w \in AggregateIds :
          /\ StepsOf(w)[1].status = "completed"
          /\ \E task \in AliveTasks : task.workflow.id = w
    /\ lastCall.op = "execute"

\* the keywords of all the buckets of _detect_document_type, which include those of
\* _analyze_conversation_context
BucketWords ==
    EmploymentWords \cup LeaseWords \cup PartnershipWords \cup ServiceWords
    \cup DemandWords \cup PlaintWords \cup AffidavitWords

C30_FormKeepsItsInvariants ==
    form # None
    => LET fields == form[1].form_structure.fields
           field_order == form[1].form_structure.field_order
           missing_info == form[1].missing_info
       IN  /\ \A i \in 1..Len(field_order) : field_order[i] \in DOMAIN fields
           /\ \A name \in DOMAIN fields :
                 fields[name].required /\ fields[name].prefilled_value = None
                 => \E i \in 1..Len(missing_info) : missing_info[i] = name

\* the names in a list
NamesIn(list) == {list[i] : i \in 1..Len(list)}

\* the required fields of a schema, with their categories
RequiredFieldsOf(a_schema) ==
    {e \in NamesIn(FieldsOf(a_schema.field_discovery)) : e.field.validation = "required"}

\* C31: missing_info of a form is exactly the set of its required fields that have no
\* value in extracted_info: a required field whose value was extracted from the
\* conversation is not listed, one without a value is; and when the user supplies the
\* value of one missing field, the recomputed missing_info is the previous set minus
\* exactly that field.
C31_MissingInfoIsRequiredMinusKnown ==
    /\ [](form # None
          => /\ \A e \in RequiredFieldsOf(form[1].schema) :
                   LET extracted == _extract_field_value(conversation, e.field.pattern,
                                                         e.field.field_type) # None
                       supplied == FieldName(e) \in DOMAIN form[1].extracted_info
                   IN  FieldName(e) \in NamesIn(form[1].missing_info)
                       <=> ~(extracted \/ supplied)
             /\ NamesIn(form[1].missing_info)
                   \subseteq {FieldName(e) : e \in RequiredFieldsOf(form[1].schema)})
    /\ [][form # None /\ form' # None /\ conversation' = conversation
          => \A name \in NamesIn(form[1].missing_info) :
                form'[1].extracted_info = DictUpdate(form[1].extracted_info,
                                                     [k \in {name} |-> "60,000"])
                => NamesIn(form'[1].missing_info) = NamesIn(form[1].missing_info) \ {name}]_vars

\* C32: generate_form never lets a field proposed by the LLM override a field that is
\* present after the customization from the requirements: every key of the customized
\* field map has, in the returned form, the definition it had there.
C32_ProposedFieldsNeverOverride ==
    lastCall.op = "generate_form" /\ lastCall.form_structure # None
    => LET customized_fields ==
               _customize_fields_from_requirements(lastCall.form_structure[1],
                                                   lastCall.requirements)
       IN  \A name \in DOMAIN customized_fields :
              /\ name \in DOMAIN form[1].fields
              /\ form[1].fields[name] = customized_fields[name]

\* the steps and collaborators that analyze_conversation reached in a run and that raised
FailedIn(run) ==
    LET detecting == run.text = "explicit" /\ run.mapping # "raises"
        by_llm == detecting /\ run.llm = "high"
        by_mapping == detecting /\ run.llm # "high" /\ run.mapping = "found"
        asks_mapper == detecting /\ run.llm # "high" /\ run.mapping = "none"
        extracting == by_llm \/ by_mapping \/ (asks_mapper /\ run.mapper = "found")
    IN  \/ run.text = "raises"
        \/ run.text # "raises" /\ run.mapping = "raises"
        \/ detecting /\ run.llm = "raises"
        \/ asks_mapper /\ run.mapper = "raises"
        \/ extracting /\ run.requirements = "raises"
        \/ extracting /\ run.key_information = "raises"

\* C33: analyze_conversation never raises but returns a result; for a conversation without
\* explicit-creation keyword the result is has_document_intent false with confidence 0,
\* whatever the collaborators would answer; and when a step or collaborator it reached
\* failed, the result is has_document_intent false, document_type None, confidence 0 and
\* empty requirements.
C33_AnalyzerDegradesToNoIntent ==
    lastCall.op = "analyze_conversation"
    => /\ lastCall.run.text = "plain" => lastCall.result = NoDocumentIntent
       /\ FailedIn(lastCall.run) => lastCall.result = NoDocumentIntent

\* C34: the intent classifier's result is a function of the query alone: whatever happens
\* to the call, a query with an extraction verb and a file noun is classified
\* 'extract_document'; failing that, one with a drafting verb and a document noun
\* 'draft_document' with the first sub-type it names, 'demand_letter' by default; failing
\* that, research, then review, then escalation; and the same query gives the same result.
C34_IntentIsAFunctionOfTheQuery ==
    lastCall.op = "_detect_intent"
    => LET user_query == lastCall.user_query
           result == lastCall.result
           extraction == /\ AnyWordIn(user_query, {"extract", "summarize", "analyze", "parse", "read"})
                         /\ AnyWordIn(user_query, {"document", "pdf", "docx", "file"})
           drafting == /\ AnyWordIn(user_query, {"draft", "create", "write", "prepare", "generate"})
                       /\ AnyWordIn(user_query, {"letter", "document", "plaint", "brief", "affidavit"})
           research == AnyWordIn(user_query, {"research", "find", "search", "case law",
                                              "statute", "precedent", "legal information"})
           review == AnyWordIn(user_query, {"review", "check", "examine", "verify", "compliance"})
       IN  /\ extraction => result.next_action = "extract_document"
           /\ ~extraction /\ drafting
              => /\ result.next_action = "draft_document"
                 /\ result.tool_to_use \in {"demand_letter", "plaint", "brief", "affidavit"}
                 /\ DraftedDocumentType(user_query) = "None" => result.tool_to_use = "demand_letter"
           /\ ~extraction /\ ~drafting /\ research => result.next_action = "research_kenyan_law"
           /\ ~extraction /\ ~drafting /\ ~research /\ review
              => result.next_action = "review_legal_document"
           /\ ~extraction /\ ~drafting /\ ~research /\ ~review
              => result.next_action = "escalate_to_human"
           /\ \A llm \in LlmOutcomes :
                 LET other == _detect_intent(user_query, llm)
                 IN  /\ other.next_action = result.next_action
                     /\ other.tool_to_use = result.tool_to_use

\* a stored workflow that is 'completed' with every step 'completed'
CompletedThroughout(w) ==
    /\ w \in StoredWorkflows
    /\ WORKFLOW_STORAGE[w].status = "completed"
    /\ \A i \in 1..Len(WORKFLOW_STORAGE[w].steps) :
          WORKFLOW_STORAGE[w].steps[i].status = "completed"

C36_WorkflowOwnerSurvivesTheStore ==
    \A w \in StoredWorkflows :
       LET loaded == get_workflow(WORKFLOW_STORAGE, w)[1]
       IN  /\ loaded.user_id = workflowCreator[w]
           /\ loaded.chat_id = "chat"
           /\ w \in get_user_workflows(WORKFLOW_STORAGE, workflowCreator[w])
           /\ \A v \in Users \ {workflowCreator[w]} :
                 w \notin get_user_workflows(WORKFLOW_STORAGE, v)

\* C37: create_draft_from_workflow by the user who created the workflow returns the id
\* of a new draft, after which the stored workflow's draftId is that id and the stored
\* draft's workflowId is the workflow's id; by another user, or for an id not in the
\* store, it returns None and leaves the draft store as it was.
C37_DraftAndWorkflowLinked ==
    \A workflow_id \in WorkflowIds, user_id \in Users :
       LET r == create_draft_from_workflow(DRAFT_STORAGE, WORKFLOW_STORAGE, nextDraft,
                                           workflow_id, user_id, "empty")
       IN  IF workflow_id \in StoredWorkflows /\ workflowCreator[workflow_id] = user_id
           THEN /\ r.ret = Some(nextDraft)
                /\ nextDraft \in DOMAIN r.drafts
                /\ nextDraft \notin DOMAIN DRAFT_STORAGE
                /\ r.workflows[workflow_id].draftId = nextDraft
                /\ r.drafts[nextDraft].workflowId = workflow_id
           ELSE /\ r.ret = None
                /\ r.drafts = DRAFT_STORAGE

\* C38: a stored draft with status 'completed' has a version with status 'approved'.
C38_CompletedDraftHasApprovedVersion ==
    \A d \in DOMAIN DRAFT_STORAGE :
       DRAFT_STORAGE[d].status = "completed"
       => \E i \in 1..Len(DRAFT_STORAGE[d].versions) :
             DRAFT_STORAGE[d].versions[i].status = "approved"

PrefixedLines(chat_content) ==
    {i \in 1..Len(chat_content) : RoleOf(chat_content[i]) # "None"}

\* the index of the k-th role-prefixed line
PrefixedLine(chat_content, k) ==
    CHOOSE i \in PrefixedLines(chat_content) :
       Cardinality({j \in PrefixedLines(chat_content) : j < i}) = k - 1

\* the index of the role-prefixed line that follows line i, or past the end
NextPrefixedLine(chat_content, i) ==
    LET later == {j \in PrefixedLines(chat_content) : j > i}
    IN  IF later = {} THEN Len(chat_content) + 1
        ELSE CHOOSE j \in later : \A other \in later : j <= other

\* the strings of a list that are not empty, one per line
RECURSIVE OnePerLine(_)
OnePerLine(strings) ==
    IF strings = <<>> THEN ""
    ELSE LET rest == OnePerLine(Tail(strings))
         IN  IF Head(strings) = "" THEN rest
             ELSE IF rest = "" THEN Head(strings)
             ELSE Head(strings) \o "\n" \o rest

\* what the message opened by line i holds: the text after the prefix and the lines
\* up to the next role-prefixed line
MessageOpenedAt(chat_content, i) ==
    LET following == SubSeq(chat_content, i + 1, NextPrefixedLine(chat_content, i) - 1)
    IN  [role |-> RoleOf(chat_content[i]),
         content |-> OnePerLine(<<chat_content[i].text>>
                                \o [j \in 1..Len(following) |-> StrippedLine(following[j])])]

\* C40: _parse_chat_content returns one message per role-prefixed line, in the order of
\* the lines: user:/human:/client: in any case open a 'user' message, assistant:/ai:/bot:/
\* wakili: an 'assistant' message; the message holds the text after the prefix and every
\* non-blank unprefixed line up to the next prefixed line; unprefixed lines before the
\* first prefixed line are in no message, and content without prefixed line gives the
\* empty list.
C40_ParserEmitsOneMessagePerPrefixedLine ==
    lastCall.op = "_parse_chat_content"
    => LET chat_content == lastCall.chat_content
           messages == lastCall.messages
       IN  /\ Len(messages) = Cardinality(PrefixedLines(chat_content))
           /\ \A k \in 1..Len(messages) :
                 messages[k] = MessageOpenedAt(chat_content, PrefixedLine(chat_content, k))
           /\ PrefixedLines(chat_content) = {} => messages = <<>>

C40_Witness ==
    /\ lastCall.op = "_parse_chat_content"
    /\ lastCall.chat_content = <<[head |-> "", text |-> "hello"],
                                 [head |-> "User:", text |-> "hi"],
                                 [head |-> "note:", text |-> "x"],
                                 [head |-> "WAKILI:", text |-> ""]>>
    /\ lastCall.messages = <<[role |-> "user", content |-> "hi\nnote: x"],
                             [role |-> "assistant", content |-> ""]>>
====
